---- MODULE Spec2Model ----
(***************************************************************************)
(* Model of exporting/bakematerials.py: the per-material bake pass, the    *)
(* rig teardown and the texture-to-material rebind, as state machines over *)
(* the host scene (materials, material slots, images, baked files).        *)
(*                                                                         *)
(* Strings are sequences of one-character strings, so that the name        *)
(* conversions of the source (sanitizeMaterialName, the '-ORG' suffix      *)
(* slice, str.replace('-ORG', '')) are computed character by character.    *)
(* A file or image name '<stem> <bake_type>.png' is the pair               *)
(* <<stem, bake_type>>: none of ' light', ' dark', ' normal' is a suffix   *)
(* of another, so the concatenation is injective in the pair.              *)
(***************************************************************************)
EXTENDS Integers, Sequences, FiniteSets, TLC

VARIABLES
    mats,     \* bpy.data.materials: material id -> material record
    slots,    \* object -> sequence of material ids (material_slots)
    images,   \* bpy.data.images: image datablock -> its name [stem, type, suffix]
    files,    \* the PNG files of the baked_files folder: set of <<stem, type>>
    cfg,      \* scene.kkbp settings and bpy.app.version[0]
    rs,       \* scene.render settings and the fillerplane's slot 0
    combine,  \* node group '.Combine colors': the link and value of mix input 0
    rig,      \* cameras, fillerplanes, Flattener modifiers, '.Geometry Nodes'
    pc,       \* position of the running function
    bp,       \* locals of bake_pass and of execute, which calls it
    hist,     \* history: what the run has done so far
    coll      \* the objects of the character collection and of its atlas copy

vars == <<mats, slots, images, files, cfg, rs, combine, rig, pc, bp, hist, coll>>

-----------------------------------------------------------------------------
(* Bounds *)

MaxSlots == 2
MaxMult == 2

-----------------------------------------------------------------------------
(* Strings *)

ORG == <<"-", "O", "R", "G">>

\* the list of line 129 without the dot
SanitizeCharsWithoutDot ==
    <<"backslash", "backtick", "*", "<", ">", ":", "?", "|", "/", "doublequote">>

\* line 129: the characters sanitizeMaterialName removes, in the order it takes
\* them. The backslash, the backtick and the double quote are written by name.
SanitizeChars ==
    <<"backslash", "backtick", "*", "<", ">", ".", ":", "?", "|", "/", "doublequote">>

\* text.replace(ch, '') for a single character ch
RemoveChar(text, ch) == SelectSeq(text, LAMBDA x : x # ch)

RECURSIVE SanitizeFrom(_, _)
SanitizeFrom(text, k) ==
    IF k > Len(SanitizeChars) THEN text
    ELSE SanitizeFrom(RemoveChar(text, SanitizeChars[k]), k + 1)

sanitizeMaterialName(text) == SanitizeFrom(text, 1)

\* text[-4:] == '-ORG'
EndsWithORG(text) ==
    /\ Len(text) >= Len(ORG)
    /\ SubSeq(text, Len(text) - Len(ORG) + 1, Len(text)) = ORG

\* lines 204-205: the file stem bake_pass renders a material to
BakeStemNoStrip(name) == sanitizeMaterialName(name)

BakeStem(name) ==
    LET matname == sanitizeMaterialName(name)
    IN  IF EndsWithORG(matname)
        THEN SubSeq(matname, 1, Len(matname) - Len(ORG))
        ELSE matname

\* name.replace('-ORG', ''): every non-overlapping occurrence, left to right
RECURSIVE ReplaceORG(_)
ReplaceORG(text) ==
    IF Len(text) < Len(ORG) THEN text
    ELSE IF SubSeq(text, 1, Len(ORG)) = ORG
         THEN ReplaceORG(SubSeq(text, Len(ORG) + 1, Len(text)))
         ELSE <<Head(text)>> \o ReplaceORG(Tail(text))

\* '-ORG' in name
ContainsORG(text) ==
    \E i \in 1..Len(text) :
        /\ i + Len(ORG) - 1 <= Len(text)
        /\ SubSeq(text, i, i + Len(ORG) - 1) = ORG

-----------------------------------------------------------------------------
(* The scene *)

BakeTypes == <<"light", "dark", "normal">>
BakeTypeSet == {"light", "dark", "normal"}

Objects == {"body", "hair"}

\* the material 'KK Eyeline kage <name>' that line 198 puts in the other slots
Placeholder == 0
PlaceholderName == <<"K", "K", " ", "E", "y", "e", "l", "i", "n", "e">>

NoImage == <<>>
NoShade == -1
NoImg == << >>
NoImgs == [light |-> NoImg, dark |-> NoImg, normal |-> NoImg]

\* The material names of the scenes the model starts in.
MatNames ==
    <<  <<"A">>,
        <<"A", ".">>,
        <<"B">>,
        <<"C">>,
        <<"A", "-", "O", "R", "G">>  >>

\* The node graphs a material of the scene can have: the 'bake' tag, whether
\* the material has a 'textures' group node, the image nodes of that group (the
\* size of the loaded image, or NoImage), the value of input 1 of the group's
\* 'shade' node (NoShade: no such node), whether the 'textures' node has
\* outputs, and what feeds input 0 of the 'out' node.
MatKinds ==
    <<  [bake |-> TRUE,  textures |-> TRUE,  nodes |-> << <<1, 4>>, <<2, 2>> >>,
         shade |-> 1, nouts |-> TRUE, outsrc |-> "combine"],
        [bake |-> TRUE,  textures |-> TRUE,  nodes |-> << NoImage >>,
         shade |-> NoShade, nouts |-> TRUE, outsrc |-> "combine"],
        [bake |-> FALSE, textures |-> TRUE,  nodes |-> << <<2, 2>> >>,
         shade |-> 1, nouts |-> TRUE, outsrc |-> "combine"],
        [bake |-> TRUE,  textures |-> FALSE, nodes |-> << >>,
         shade |-> NoShade, nouts |-> FALSE, outsrc |-> "other"],
        [bake |-> TRUE,  textures |-> TRUE,
         nodes |-> << <<1, 2>>, NoImage, <<3, 2>>, <<2, 2>> >>,
         shade |-> 0, nouts |-> FALSE, outsrc |-> "other"],
        [bake |-> TRUE,  textures |-> TRUE,  nodes |-> << <<2, 1>> >>,
         shade |-> 1, nouts |-> TRUE, outsrc |-> "other"]  >>

Material(name, kind) ==
    [name |-> name, bake |-> kind.bake, simple |-> FALSE,
     textures |-> kind.textures, nodes |-> kind.nodes, shade |-> kind.shade,
     nouts |-> kind.nouts, outsrc |-> kind.outsrc,
     img |-> NoImgs, use_fake_user |-> FALSE, blend |-> "OPAQUE"]

PlaceholderMaterial ==
    [name |-> PlaceholderName, bake |-> FALSE, simple |-> FALSE,
     textures |-> FALSE, nodes |-> << >>, shade |-> NoShade,
     nouts |-> FALSE, outsrc |-> "other",
     img |-> NoImgs, use_fake_user |-> TRUE, blend |-> "BLEND"]

\* bpy.data.materials[name]
MatByName(ms, name) == CHOOSE m \in DOMAIN ms : ms[m].name = name

\* bpy.data.materials.get(name) is not None
MatExists(ms, name) == \E m \in DOMAIN ms : ms[m].name = name

\* The character collection: the armature and the meshes, in the order of
\* all_objects. A reference to an object is <<name, k>>: k = 0 for the object
\* itself, k > 0 for its copy '<name>.00k'.
Armature == "armature"
SrcObjects == {Armature} \cup Objects
ObjectOrder == <<"armature", "body", "hair">>
MeshOrder == SelectSeq(ObjectOrder, LAMBDA o : o \in Objects)

NoObject == <<"none", 0>>
\* an object that is not in the character collection
Outside == <<"outside", 0>>

\* a material slot without material (slot.material is None)
NoMaterial == -1

\* the name of the collection copy and of the copy of its child collection
AtlasCollections == {"atlas", "Bone Widgets.001"}

\* lines 447-460: the modifiers the atlas step looks at
ArmatureModifier(ob) ==
    [type |-> "ARMATURE", object |-> ob, object_to |-> NoObject, show |-> TRUE]
OutlineModifier ==
    [type |-> "SOLIDIFY", object |-> NoObject, object_to |-> NoObject, show |-> TRUE]
UVWarpModifier(ob) ==
    [type |-> "UV_WARP", object |-> ob, object_to |-> ob, show |-> TRUE]

\* the objects of the character collection: the meshes are rigged to the
\* armature, the body has the outline, the hair a UV warp
SourceObjects(armature_parent, hair_parent) ==
    [o \in SrcObjects |->
        IF o = Armature
        THEN [type |-> "ARMATURE", parent |-> armature_parent, mods |-> << >>,
              data |-> <<"ARMATURE", o, 0>>]
        ELSE IF o = "body"
        THEN [type |-> "MESH", parent |-> <<Armature, 0>>,
              mods |-> <<ArmatureModifier(<<Armature, 0>>), OutlineModifier>>,
              data |-> <<"MESH", o, 0>>]
        ELSE [type |-> "MESH", parent |-> hair_parent,
              mods |-> <<UVWarpModifier(<<Armature, 0>>),
                         ArmatureModifier(<<Armature, 0>>)>>,
              data |-> <<"MESH", o, 0>>]]

\* src: the objects of the character collection; dup: the objects made by
\* copying them; colls: the collections of the copy; data: the armature and
\* mesh datablocks; emission: the 'Emission'/'Image Texture' node pairs of a
\* material, by the numeric suffix of their names; atlasmats: the materials
\* with the 'atlas' tag; aimages: the images loaded from the atlas_files
\* folder, <<"atlas", name, bake_type, suffix>>; afiles: the files of that
\* folder; exporters: the exporters of the collection copy; purged: the
\* running call has deleted an older copy; calls: calls so far
Collections(armature_parent, hair_parent) ==
    [src |-> SourceObjects(armature_parent, hair_parent),
     dup |-> << >>,
     colls |-> {},
     data |-> {<<"ARMATURE", Armature, 0>>} \cup {<<"MESH", o, 0>> : o \in Objects},
     emission |-> << >>,
     atlasmats |-> {},
     aimages |-> {},
     afiles |-> {},
     exporters |-> 0,
     purged |-> FALSE,
     calls |-> 0]

CollInit == Collections(NoObject, <<Armature, 0>>)

-----------------------------------------------------------------------------
(* bake_pass *)

FailsafeRes == 64

\* line 154: current_material.get('bake')
HasBakeTagAlways(m) == TRUE

HasBakeTag(m) == m.bake

\* lines 176-182: the highest resolution among the images of the textures group
RECURSIVE HighestFrom(_, _, _)
HighestFrom(nodes, k, highest_resolution) ==
    IF k > Len(nodes) THEN highest_resolution
    ELSE LET image_node == nodes[k]
         IN  IF /\ image_node # NoImage
                /\ image_node[1] * image_node[2]
                     > highest_resolution[1] * highest_resolution[2]
             THEN HighestFrom(nodes, k + 1, image_node)
             ELSE HighestFrom(nodes, k + 1, highest_resolution)

LastResolution(nodes) ==
    LET withImage == SelectSeq(nodes, LAMBDA n : n # NoImage)
    IN  IF withImage = << >> THEN <<0, 0>> ELSE withImage[Len(withImage)]

HighestResolution(nodes) == HighestFrom(nodes, 1, <<0, 0>>)

\* lines 184-193: 'if highest_resolution:' tests a two-element list, which is
\* true whatever its elements are
RenderResolution(nodes, resolution_multiplier) ==
    LET highest_resolution == HighestResolution(nodes)
    IN  IF Len(highest_resolution) # 0
        THEN <<highest_resolution[1] * resolution_multiplier,
               highest_resolution[2] * resolution_multiplier>>
        ELSE <<FailsafeRes, FailsafeRes>>

\* lines 196-198: every slot except the current material becomes transparent
SwapAllButFirst(s, current_material) ==
    [i \in DOMAIN s |->
        IF i = 1 \/ s[i] = current_material THEN s[i] ELSE Placeholder]

SwapSlots(s, current_material) ==
    [i \in DOMAIN s |-> IF s[i] # current_material THEN Placeholder ELSE s[i]]

\* lines 142-144: the material names of the slots
MaterialOrder(ms, s) == [i \in DOMAIN s |-> ms[s[i]].name]

\* lines 229-230: the slots are reset from the remembered names
RestoreFirstSlotOnly(ms, s, original_material_order) ==
    [i \in DOMAIN s |->
        IF i = 1 THEN MatByName(ms, original_material_order[i]) ELSE s[i]]

RestoreSlots(ms, s, original_material_order) ==
    [i \in DOMAIN s |-> MatByName(ms, original_material_order[i])]

Obj == bp.obj
CurrentMaterial == slots[Obj][bp.index]
InLoop == pc = "bp_loop" /\ bp.index <= Len(slots[Obj])

\* lines 595-601 with the types appended in the opposite order
EnabledTypesReversed(c) ==
    SelectSeq(<<"normal", "dark", "light">>, LAMBDA t : t \in c.passes)

\* lines 594-603: the enabled bake types, in the order execute calls bake_pass
EnabledTypes(c) == SelectSeq(BakeTypes, LAMBDA t : t \in c.passes)

\* lines 139-149
BakePassBegin ==
    /\ pc = "idle"
    /\ bp.todo # << >>
    /\ combine.linked
    /\ bp' = [bp EXCEPT !.bake_type = Head(bp.todo),
                        !.index = 1,
                        !.original_material_order = MaterialOrder(mats, slots[Obj]),
                        !.before = slots[Obj]]
    /\ combine' = [linked |-> FALSE,
                   value |-> IF Head(bp.todo) = "light" THEN 1 ELSE 0]
    /\ pc' = "bp_loop"
    /\ hist' = [hist EXCEPT
                  !.skipped = {},
                  !.steps = Append(@, <<"bake_pass", Obj, Head(bp.todo)>>),
                  !.graph = [m \in DOMAIN mats |-> <<mats[m].shade, mats[m].outsrc>>]]
    /\ UNCHANGED <<mats, slots, images, files, cfg, rs, rig, coll>>

\* lines 152-156: a material without the bake tag is skipped
BakeSkip ==
    /\ InLoop
    /\ ~HasBakeTag(mats[CurrentMaterial])
    /\ bp' = [bp EXCEPT !.index = bp.index + 1]
    /\ hist' = [hist EXCEPT !.skipped = hist.skipped \cup {bp.index}]
    /\ UNCHANGED <<mats, slots, images, files, cfg, rs, combine, rig, pc, coll>>

\* lines 158-172, 216-230: a bake-tagged material without a 'textures' node
BakeUntextured ==
    /\ InLoop
    /\ HasBakeTag(mats[CurrentMaterial])
    /\ ~mats[CurrentMaterial].textures
    /\ slots' = [slots EXCEPT
                   ![Obj] = RestoreSlots(mats, slots[Obj], bp.original_material_order)]
    /\ bp' = [bp EXCEPT !.index = bp.index + 1]
    /\ UNCHANGED <<mats, images, files, cfg, rs, combine, rig, pc, hist, coll>>

\* lines 158-210: everything up to the render call
BakePrepare ==
    /\ InLoop
    /\ HasBakeTag(mats[CurrentMaterial])
    /\ mats[CurrentMaterial].textures
    /\ LET cur == CurrentMaterial
           m == mats[cur]
           res == RenderResolution(m.nodes, cfg.bake_mult)
       IN  /\ IF bp.bake_type # "normal"
              THEN /\ mats' = IF m.shade # NoShade
                              THEN [mats EXCEPT ![cur].shade = 0]
                              ELSE mats
                   /\ bp' = IF m.shade # NoShade
                            THEN [bp EXCEPT !.original_normal_state = m.shade]
                            ELSE bp
              ELSE /\ mats' = IF m.nouts
                              THEN [mats EXCEPT ![cur].outsrc = "normal"]
                              ELSE mats
                   /\ bp' = bp
           /\ slots' = [slots EXCEPT ![Obj] = SwapSlots(slots[Obj], cur)]
           /\ rs' = [rs EXCEPT !.resolution_x = res[1],
                               !.resolution_y = res[2],
                               !.filler = cur,
                               !.filepath = <<BakeStem(m.name), bp.bake_type>>]
    /\ pc' = "bp_render"
    /\ UNCHANGED <<images, files, cfg, combine, rig, hist, coll>>

\* lines 211-214: the render writes the file; the file path is reset
BakeRender ==
    /\ pc = "bp_render"
    /\ files' = files \cup {rs.filepath}
    /\ hist' = [hist EXCEPT !.written = hist.written \cup {rs.filepath},
                            !.renders = hist.renders + 1]
    /\ rs' = [rs EXCEPT !.filepath = << >>]
    /\ pc' = "bp_restore"
    /\ UNCHANGED <<mats, slots, images, cfg, combine, rig, bp, coll>>

\* line 211: the render raises; bake_pass is left at once
BakeRenderFails ==
    /\ pc = "bp_render"
    /\ pc' = "raised"
    /\ UNCHANGED <<mats, slots, images, files, cfg, rs, combine, rig, bp, hist, coll>>

\* lines 216-230
BakeRestore ==
    /\ pc = "bp_restore"
    /\ LET cur == rs.filler
           m == mats[cur]
       IN  mats' = IF bp.bake_type # "normal"
                   THEN IF m.shade # NoShade
                        THEN [mats EXCEPT ![cur].shade = bp.original_normal_state]
                        ELSE mats
                   ELSE IF m.nouts
                        THEN [mats EXCEPT ![cur].outsrc = "combine"]
                        ELSE mats
    /\ slots' = [slots EXCEPT
                   ![Obj] = RestoreSlots(mats, slots[Obj], bp.original_material_order)]
    /\ bp' = [bp EXCEPT !.index = bp.index + 1]
    /\ pc' = "bp_loop"
    /\ UNCHANGED <<images, files, cfg, rs, combine, rig, hist, coll>>

\* lines 232-234: the loop is over; the color output group is linked again
BakePassEnd ==
    /\ pc = "bp_loop"
    /\ bp.index > Len(slots[Obj])
    /\ combine' = [combine EXCEPT !.linked = TRUE]
    /\ bp' = [bp EXCEPT !.todo = Tail(bp.todo),
                        !.done = Append(bp.done, bp.bake_type)]
    /\ pc' = "idle"
    /\ UNCHANGED <<mats, slots, images, files, cfg, rs, rig, hist, coll>>

-----------------------------------------------------------------------------
(* The bake of one object: bake_pass once per enabled bake type *)

SlotChoices == UNION {[1..n -> 0..Len(MatNames)] : n \in 1..MaxSlots}

PassChoices == (SUBSET BakeTypeSet) \ {{}}

\* the kind of material i when the kinds are rotated by shift
KindOf(i, shift) == MatKinds[((i - 1 + shift) % Len(MatKinds)) + 1]

\* lines 88-107: the two scale drivers setup adds to the object to bake
ScaleDrivers == <<"scale[0]", "scale[1]">>

\* the rig as execute has set it up for the body (lines 589-591)
RigReady ==
    [cameras |-> 1, camdata |-> 1, fillerplanes |-> 1, planedata |-> 1,
     flattener |-> [o \in Objects |-> o = "body"],
     drivers |-> [o \in Objects |-> IF o = "body" THEN ScaleDrivers ELSE << >>],
     scale |-> [o \in Objects |-> 1],
     geonodes |-> 1]

\* a scene without camera, fillerplane, Flattener modifier and '.Geometry Nodes'
RigClean ==
    [cameras |-> 0, camdata |-> 0, fillerplanes |-> 0, planedata |-> 0,
     flattener |-> [o \in Objects |-> FALSE],
     drivers |-> [o \in Objects |-> << >>],
     scale |-> [o \in Objects |-> 1],
     geonodes |-> 0]

HistInit ==
    [written |-> {}, renders |-> 0, skipped |-> {},
     op |-> "none", obj |-> "body", outcome |-> "none", runs |-> 0,
     created |-> {}, steps |-> << >>, graph |-> << >>, mesh |-> << >>,
     failed |-> {}, failures |-> 0]

InitBake ==
    /\ \E shift \in 0..(Len(MatKinds) - 1) :
         mats = [i \in 0..Len(MatNames) |->
                   IF i = Placeholder THEN PlaceholderMaterial
                   ELSE Material(MatNames[i], KindOf(i, shift))]
    /\ \E s \in SlotChoices : slots = [o \in Objects |-> IF o = "body" THEN s ELSE << >>]
    /\ images = << >>
    /\ files = {}
    /\ \E p \in PassChoices, mult \in 1..MaxMult :
         /\ cfg = [passes |-> p, bake_mult |-> mult, shader |-> "A", version |-> 4]
         /\ bp = [obj |-> "body", todo |-> EnabledTypes([passes |-> p]),
                  done |-> << >>, bake_type |-> "light", index |-> 1,
                  original_material_order |-> << >>, original_normal_state |-> 0,
                  before |-> << >>]
    /\ rs = [resolution_x |-> 1, resolution_y |-> 1, filepath |-> << >>,
             filler |-> Placeholder]
    /\ combine = [linked |-> TRUE, value |-> 0]
    /\ rig = RigReady
    /\ pc = "idle"
    /\ hist = HistInit
    /\ coll = CollInit

NextBake ==
    \/ BakePassBegin
    \/ BakeSkip
    \/ BakeUntextured
    \/ BakePrepare
    \/ BakeRender
    \/ BakeRenderFails
    \/ BakeRestore
    \/ BakePassEnd

SpecBake == InitBake /\ [][NextBake]_vars

-----------------------------------------------------------------------------
(* replace_all_baked_materials *)

\* The function works on the materials, the slots and the images; raised says
\* that an exception has left it, created which materials it has made.
RECURSIVE LoadAll(_, _)
RECURSIVE RebindFrom(_, _, _, _)

\* a new datablock gets the smallest id not in use
FreshId(f) == CHOOSE n \in 1..(Cardinality(DOMAIN f) + 1) :
                 /\ n \notin DOMAIN f
                 /\ \A k \in 1..(n - 1) : k \in DOMAIN f

\* The identity of an image datablock is the file it was loaded from and a
\* generation number, the smallest that no datablock of that file in use has.
FreshImage(imgs, file) ==
    LET g == CHOOSE n \in 0..Cardinality(DOMAIN imgs) :
                 /\ <<file[1], file[2], n>> \notin DOMAIN imgs
                 /\ \A k \in 0..(n - 1) : <<file[1], file[2], k>> \in DOMAIN imgs
    IN  <<file[1], file[2], g>>

\* bpy.data.images.get('<stem> <type>.png')
ImgGet(imgs, stem, type) ==
    IF \E i \in DOMAIN imgs : imgs[i] = [stem |-> stem, type |-> type, suffix |-> 0]
    THEN CHOOSE i \in DOMAIN imgs : imgs[i] = [stem |-> stem, type |-> type, suffix |-> 0]
    ELSE NoImg

\* line 268: the host names a loaded image after its file, with the first
\* free numeric suffix ('.001', ...) when that name is taken
FreeSuffix(imgs, stem, type) ==
    CHOOSE k \in 0..Cardinality(DOMAIN imgs) :
        /\ \A i \in DOMAIN imgs : imgs[i] # [stem |-> stem, type |-> type, suffix |-> k]
        /\ \A j \in 0..(k - 1) :
              \E i \in DOMAIN imgs : imgs[i] = [stem |-> stem, type |-> type, suffix |-> j]

\* line 273: old.user_remap(image)
UserRemap(ms, old, image) ==
    [m \in DOMAIN ms |->
        [ms[m] EXCEPT !.img = [t \in BakeTypeSet |->
                                  IF ms[m].img[t] = old THEN image ELSE ms[m].img[t]]]]

\* lines 268-275: one file is loaded; an older image of the same name is replaced
LoadFile(D, file) ==
    LET image == FreshImage(D.images, file)
        k == FreeSuffix(D.images, file[1], file[2])
        loaded == (image :> [stem |-> file[1], type |-> file[2], suffix |-> k])
                      @@ D.images
        old == ImgGet(D.images, file[1], file[2])
    IN  IF k = 1 /\ old # NoImg
        THEN [D EXCEPT
                !.mats = UserRemap(D.mats, old, image),
                !.images = [i \in (DOMAIN loaded) \ {old} |->
                               IF i = image THEN [loaded[i] EXCEPT !.suffix = 0]
                               ELSE loaded[i]]]
        ELSE [D EXCEPT !.images = loaded]

\* lines 264-277: every PNG of the folder is loaded
LoadAll(D, fs) ==
    IF fs = {} THEN D
    ELSE LET file == CHOOSE f \in fs : TRUE
         IN  LoadAll(LoadFile(D, file), fs \ {file})

\* lines 302, 308: the host keeps material names unique with a numeric suffix
UniqueName(ms, name) ==
    IF MatExists(ms, name) THEN name \o <<".", "0", "0", "1">> ELSE name

\* lines 312-316: the image of this bake type; the light image also fills the
\* dark slot
BindWithoutMirror(img, bake_type, image) == [img EXCEPT ![bake_type] = image]

BindNew(img, bake_type, image) ==
    IF bake_type = "light"
    THEN [img EXCEPT !["light"] = image, !["dark"] = image]
    ELSE [img EXCEPT ![bake_type] = image]

\* lines 304-311: a copy of the material 'KK Simple' with its own textures group
SimpleCopy(name) ==
    [name |-> name, bake |-> FALSE, simple |-> FALSE,
     textures |-> TRUE, nodes |-> << >>, shade |-> NoShade,
     nouts |-> TRUE, outsrc |-> "other",
     img |-> NoImgs, use_fake_user |-> FALSE, blend |-> "OPAQUE"]

\* lines 284-288: the slot holds a simplified material
RebindSimple(D, m, bake_type, image) ==
    [D EXCEPT !.mats[m].img[bake_type] = image]

\* lines 290-297: the slot holds the -ORG original and the material without
\* '-ORG' exists; that material has the image nodes only if it is a simplified one
RebindReverted(D, obj, i, m, bake_type, image) ==
    LET simple == MatByName(D.mats, ReplaceORG(D.mats[m].name))
    IN  IF D.mats[simple].simple
        THEN [D EXCEPT !.slots[obj][i] = simple,
                       !.mats[simple].img[bake_type] = image]
        ELSE [D EXCEPT !.slots[obj][i] = simple, !.raised = TRUE]

\* lines 299-343: the simplified material is created. With the Eevee Mod
\* shader, line 337 rebinds the name simple to a node group, and the second
\* replace_mat() of line 343 assigns that node group to the material slot,
\* which the host refuses with a TypeError.
RebindCreate(D, obj, i, m, bake_type, image, c) ==
    LET orgname == UniqueName(D.mats, D.mats[m].name \o ORG)
        renamed == [D.mats EXCEPT ![m].name = orgname, ![m].use_fake_user = TRUE]
        simple == FreshId(renamed)
        new == [SimpleCopy(UniqueName(renamed, ReplaceORG(orgname))) EXCEPT
                  !.img = BindNew(NoImgs, bake_type, image),
                  !.blend = D.mats[m].blend,
                  !.simple = TRUE,
                  !.use_fake_user = (c.shader = "C")]
    IN  [D EXCEPT !.mats = (simple :> new) @@ renamed,
                  !.slots[obj][i] = simple,
                  !.created = D.created \cup {simple},
                  !.raised = (c.shader = "C")]

\* lines 282-343: one slot in one bake type
RebindSlot(D, obj, i, bake_type, c) ==
    LET m == D.slots[obj][i]
        name == D.mats[m].name
        image == ImgGet(D.images, ReplaceORG(name), bake_type)
    IN  IF image = NoImg THEN D
        ELSE IF D.mats[m].simple THEN RebindSimple(D, m, bake_type, image)
        ELSE IF /\ D.mats[m].bake
                /\ ContainsORG(name)
                /\ MatExists(D.mats, ReplaceORG(name))
             THEN RebindReverted(D, obj, i, m, bake_type, image)
        ELSE IF D.mats[m].bake
             THEN RebindCreate(D, obj, i, m, bake_type, image, c)
        ELSE D

\* lines 280-281: the bake types in order, and in each the slots in order
RebindFrom(D, obj, t, i) ==
    IF D.raised \/ t > Len(BakeTypes) THEN D
    ELSE IF i > Len(D.slots[obj]) THEN RebindFrom(D, obj, t + 1, 1)
    ELSE RebindFrom(RebindSlot(D, obj, i, BakeTypes[t], D.cfg), obj, t, i + 1)

replace_all_baked_materials(ms, sl, im, fs, c, obj) ==
    RebindFrom(LoadAll([mats |-> ms, slots |-> sl, images |-> im, cfg |-> c,
                        raised |-> FALSE, created |-> {}], fs),
               obj, 1, 1)

\* a call of replace_all_baked_materials on one object
Rebind(obj) ==
    /\ pc = "idle"
    /\ \E D \in {replace_all_baked_materials(mats, slots, images, files, cfg, obj)} :
           /\ mats' = D.mats
           /\ slots' = D.slots
           /\ images' = D.images
           /\ hist' = [hist EXCEPT
                         !.op = "rebind",
                         !.obj = obj,
                         !.outcome = IF D.raised THEN "raised" ELSE "returned",
                         !.runs = IF hist.op = "rebind" /\ hist.obj = obj THEN 2 ELSE 1,
                         !.created = D.created,
                         !.failed = {}]
    /\ UNCHANGED <<files, cfg, rs, combine, rig, pc, bp, coll>>

MaxLoadFailures == 1

\* lines 266-277: the files whose load raises are logged and passed over
Loadable(fs, failing) == fs \ failing

\* a call of replace_all_baked_materials in which the load of one file raises
RebindLoadFails(obj, file) ==
    /\ pc = "idle"
    /\ hist.failures < MaxLoadFailures
    /\ file \in files
    /\ \E D \in {replace_all_baked_materials(mats, slots, images,
                                             Loadable(files, {file}), cfg, obj)} :
           /\ mats' = D.mats
           /\ slots' = D.slots
           /\ images' = D.images
           /\ hist' = [hist EXCEPT
                         !.op = "rebind",
                         !.obj = obj,
                         !.outcome = IF D.raised THEN "raised" ELSE "returned",
                         !.runs = 1,
                         !.created = D.created,
                         !.failed = {file},
                         !.failures = hist.failures + 1]
    /\ UNCHANGED <<files, cfg, rs, combine, rig, pc, bp, coll>>

\* the user puts the -ORG original back into a slot that holds its simplified
\* material, to bake it again (comment of lines 290-291)
UserRevert(obj, i) ==
    /\ pc = "idle"
    /\ i \in DOMAIN slots[obj]
    /\ mats[slots[obj][i]].simple
    /\ MatExists(mats, mats[slots[obj][i]].name \o ORG)
    /\ slots' = [slots EXCEPT
                   ![obj][i] = MatByName(mats, mats[slots[obj][i]].name \o ORG)]
    /\ hist' = [hist EXCEPT !.op = "revert", !.obj = obj, !.outcome = "none",
                            !.runs = 0, !.created = {}]
    /\ UNCHANGED <<mats, images, files, cfg, rs, combine, rig, pc, bp, coll>>

\* the files of the folder: the stems bake_pass writes for the materials of
\* the scene, in the bake types of an earlier bake
StemChoices == {{BakeStem(MatNames[i]) : i \in 1..4},
                {BakeStem(MatNames[i]) : i \in 3..4}}

TypeChoices == {{"light"}, {"dark"}, {"light", "dark"}, BakeTypeSet}

HairChoices == {<< >>, <<1>>}

\* the shader setting and the host's major version
HostChoices == {<<"A", 3>>, <<"A", 4>>, <<"C", 4>>}

InitRebind ==
    /\ mats = [i \in 0..4 |->
                 IF i = Placeholder THEN PlaceholderMaterial
                 ELSE Material(MatNames[i], KindOf(i, 0))]
    /\ \E s \in SlotChoices, h \in HairChoices :
         /\ \A i \in DOMAIN s : s[i] \in 1..4
         /\ slots = [o \in Objects |-> IF o = "body" THEN s ELSE h]
    /\ images = << >>
    /\ \E S \in StemChoices, p \in TypeChoices :
         files = {<<stem, t>> : stem \in S, t \in p}
    /\ \E host \in HostChoices :
         cfg = [passes |-> {}, bake_mult |-> 1, shader |-> host[1], version |-> host[2]]
    /\ bp = [obj |-> "body", todo |-> << >>,
             done |-> << >>, bake_type |-> "light", index |-> 1,
             original_material_order |-> << >>, original_normal_state |-> 0,
             before |-> << >>]
    /\ rs = [resolution_x |-> 1, resolution_y |-> 1, filepath |-> << >>,
             filler |-> Placeholder]
    /\ combine = [linked |-> TRUE, value |-> 0]
    /\ rig = RigClean
    /\ pc = "idle"
    /\ hist = HistInit
    /\ coll = CollInit

NextRebind ==
    \/ \E obj \in Objects : Rebind(obj)
    \/ \E obj \in Objects, i \in 1..(MaxSlots + 1) : UserRevert(obj, i)

SpecRebind == InitRebind /\ [][NextRebind]_vars

\* the same scenes, with calls in which the load of a file raises
NextLoad ==
    \/ \E obj \in Objects : Rebind(obj)
    \/ \E obj \in Objects, stem \in UNION StemChoices, t \in BakeTypeSet :
          RebindLoadFails(obj, <<stem, t>>)

SpecLoad == InitRebind /\ [][NextLoad]_vars

-----------------------------------------------------------------------------
(* setup_camera, setup_geometry_nodes_and_fillerplane, cleanup *)

MaxCameras == 1

\* lines 25-48: every camera object is deleted, camera data without users is
\* removed, and one new camera is added
setup_camera(r) == [r EXCEPT !.cameras = 1, !.camdata = 1]

\* driver_add: the driver of the path, appended if the object has none for it
DriverAdd(drivers, path) ==
    IF \E k \in DOMAIN drivers : drivers[k] = path THEN drivers
    ELSE Append(drivers, path)

\* lines 50-121: the fillerplane, the scale drivers of the object to bake, the
\* node group '.Geometry Nodes' and the object's 'Flattener' modifier
setup_geometry_nodes_and_fillerplane(r, object_to_bake) ==
    [r EXCEPT !.fillerplanes = r.fillerplanes + 1,
              !.planedata = r.planedata + 1,
              !.drivers[object_to_bake] =
                  DriverAdd(DriverAdd(r.drivers[object_to_bake], ScaleDrivers[1]),
                            ScaleDrivers[2]),
              !.geonodes = r.geonodes + 1,
              !.flattener[object_to_bake] = TRUE]

\* lines 252-259: the meshes that have a 'Flattener' modifier lose it, lose
\* their first two drivers and get scale (1, 1, 1)
Unflatten(r) ==
    [r EXCEPT
       !.flattener = [o \in Objects |-> FALSE],
       !.drivers = [o \in Objects |->
                       IF r.flattener[o]
                       THEN SubSeq(r.drivers[o], 3, Len(r.drivers[o]))
                       ELSE r.drivers[o]],
       !.scale = [o \in Objects |-> IF r.flattener[o] THEN 1 ELSE r.scale[o]]]

\* lines 238-251: cameras and fillerplanes are removed, with their data
RemoveRigObjects(r) ==
    [r EXCEPT !.cameras = 0, !.fillerplanes = 0, !.camdata = 0, !.planedata = 0]

\* lines 257-258: drivers[0] raises IndexError when the mesh has no driver left
DriverMissing(r) == \E o \in Objects : r.flattener[o] /\ Len(r.drivers[o]) < 2

\* line 260: bpy.data.node_groups['.Geometry Nodes'] raises KeyError when the
\* node group is not there
GeoNodesMissing(r) == r.geonodes = 0

\* lines 236-260
cleanup(r) ==
    LET swept == Unflatten(RemoveRigObjects(r))
    IN  IF DriverMissing(r)
        THEN [rig |-> RemoveRigObjects(r), raised |-> TRUE]
        ELSE IF GeoNodesMissing(r)
        THEN [rig |-> swept, raised |-> TRUE]
        ELSE [rig |-> [swept EXCEPT !.geonodes = r.geonodes - 1], raised |-> FALSE]

SetupCamera ==
    /\ pc = "idle"
    /\ rig' = setup_camera(rig)
    /\ pc' = "rig_camera"
    /\ hist' = [hist EXCEPT !.op = "setup_camera", !.outcome = "returned"]
    /\ UNCHANGED <<mats, slots, images, files, cfg, rs, combine, bp, coll>>

SetupGeometryNodes(obj) ==
    /\ pc = "rig_camera"
    /\ rig' = setup_geometry_nodes_and_fillerplane(rig, obj)
    /\ pc' = "rig_ready"
    /\ hist' = [hist EXCEPT
                  !.op = "setup_geometry_nodes", !.obj = obj,
                  !.outcome = "returned",
                  !.mesh = <<rig.flattener[obj], rig.drivers[obj], rig.scale[obj]>>]
    /\ UNCHANGED <<mats, slots, images, files, cfg, rs, combine, bp, coll>>

\* cleanup is called by execute once the rig is ready (line 604), and it can
\* be called on any scene
Cleanup ==
    /\ pc \in {"idle", "rig_ready"}
    /\ \E R \in {cleanup(rig)} :
          /\ rig' = R.rig
          /\ hist' = [hist EXCEPT
                        !.op = "cleanup",
                        !.outcome = IF R.raised THEN "raised" ELSE "returned"]
    /\ pc' = "idle"
    /\ UNCHANGED <<mats, slots, images, files, cfg, rs, combine, bp, coll>>

\* the scenes the rig functions are run on: cameras of the user's, drivers of
\* the user's on the objects, objects scaled or not
UserDrivers == {<< >>, <<"location[0]">>}

InitRig ==
    /\ mats = [i \in 0..Len(MatNames) |->
                 IF i = Placeholder THEN PlaceholderMaterial
                 ELSE Material(MatNames[i], KindOf(i, 0))]
    /\ slots = [o \in Objects |-> <<1>>]
    /\ images = << >>
    /\ files = {}
    /\ cfg = [passes |-> BakeTypeSet, bake_mult |-> 1, shader |-> "A", version |-> 4]
    /\ bp = [obj |-> "body", todo |-> << >>,
             done |-> << >>, bake_type |-> "light", index |-> 1,
             original_material_order |-> << >>, original_normal_state |-> 0,
             before |-> << >>]
    /\ rs = [resolution_x |-> 1, resolution_y |-> 1, filepath |-> << >>,
             filler |-> Placeholder]
    /\ combine = [linked |-> TRUE, value |-> 0]
    /\ \E cams \in 0..MaxCameras,
          d \in [Objects -> UserDrivers],
          sc \in [Objects -> {1, 2}] :
         rig = [RigClean EXCEPT !.cameras = cams, !.camdata = cams,
                                !.drivers = d, !.scale = sc]
    /\ pc = "idle"
    /\ hist = HistInit
    /\ coll = CollInit

NextRig ==
    \/ SetupCamera
    \/ \E obj \in Objects : SetupGeometryNodes(obj)
    \/ Cleanup

SpecRig == InitRig /\ [][NextRig]_vars

-----------------------------------------------------------------------------
(* create_material_atlas *)

MaxCalls == 2

\* The function works on the materials, the slots, the images and the
\* collections; raised says that an exception has left it.
AtlasScene(ms, sl, im, co, c) ==
    [mats |-> ms, slots |-> sl, images |-> im, coll |-> co, cfg |-> c,
     raised |-> FALSE]

Restrict(f, S) == [x \in S |-> f[x]]

Digit(k) == <<"0", "1", "2", "3", "4", "5", "6", "7", "8", "9">>[k + 1]

\* the names of the objects of the character collection
ObjectNames == [armature |-> <<"R">>, body |-> <<"B">>, hair |-> <<"H">>]

\* the name the host gives the copy of an object: '<name>.00k'
ObjectName(x) ==
    IF x[2] = 0 THEN ObjectNames[x[1]]
    ELSE ObjectNames[x[1]] \o <<".", "0", "0", Digit(x[2])>>

\* text.replace(old, ''): every non-overlapping occurrence, left to right
RECURSIVE Remove(_, _)
Remove(text, old) ==
    IF Len(text) < Len(old) THEN text
    ELSE IF SubSeq(text, 1, Len(old)) = old
         THEN Remove(SubSeq(text, Len(old) + 1, Len(text)), old)
         ELSE <<Head(text)>> \o Remove(Tail(text), old)

\* line 468: the name of the atlas image of an object, without '_<type>.png'
ObjectKey(x) == Remove(sanitizeMaterialName(ObjectName(x)), <<"0", "0", "1">>)

\* lines 472, 483: the name the packing routine gives the image of the mesh
\* at position index of the collection copy
IndexName(index) == <<Digit(index)>>

\* '{} Atlas'.format(material.name)
AtlasName(name) == name \o <<" ", "A", "t", "l", "a", "s">>

\* mat.name[:-4]
SimplifiedName(name) == SubSeq(name, 1, Len(name) - Len(ORG))

\* bpy.data.images.load on a file of the atlas_files folder: the image is
\* named after the file, with the first free numeric suffix
AtlasImage(aimages, name, bake_type) ==
    LET k == CHOOSE n \in 0..Cardinality(aimages) :
                 /\ <<"atlas", name, bake_type, n>> \notin aimages
                 /\ \A j \in 0..(n - 1) : <<"atlas", name, bake_type, j>> \in aimages
    IN  <<"atlas", name, bake_type, k>>

\* bpy.data.images.remove(image): the image slots that hold it are emptied
RemoveImage(ms, image) ==
    [m \in DOMAIN ms |->
        [ms[m] EXCEPT !.img = [t \in BakeTypeSet |->
                                  IF ms[m].img[t] = image THEN NoImg ELSE ms[m].img[t]]]]

\* the object of the collection copy made from source object o
DupIn(C, o) == CHOOSE x \in DOMAIN C.dup : C.dup[x].linked /\ C.dup[x].src = o

\* [mat_slot.material for mat_slot in obj.material_slots
\*  if mat_slot.material.get('simple')]
SimpleSlots(D, x) ==
    SelectSeq(D.coll.dup[x].slots,
              LAMBDA m : m # NoMaterial /\ D.mats[m].simple)

\* block.users for a datablock of an object, a material, an image
DataUsed(C, d) ==
    \/ \E o \in SrcObjects : C.src[o].data = d
    \/ \E x \in DOMAIN C.dup : C.dup[x].data = d

MatUsed(ms, sl, dup, m) ==
    \/ ms[m].use_fake_user
    \/ \E o \in Objects : \E i \in DOMAIN sl[o] : sl[o][i] = m
    \/ \E x \in DOMAIN dup : \E i \in DOMAIN dup[x].slots : dup[x].slots[i] = m

ImgUsed(ms, image) == \E m \in DOMAIN ms : \E t \in BakeTypeSet : ms[m].img[t] = image

\* the materials that have a 'textures' group with the nodes light, dark, normal
HasBakeNodes(D, m) == D.mats[m].simple \/ m \in D.coll.atlasmats

\* lines 360-366: the simplified sibling of every '-ORG' material gets, in
\* each image node, the image '<name> <type>.png' or None if there is none
RevertImages(D) ==
    LET sibs == {MatByName(D.mats, SimplifiedName(D.mats[m].name)) :
                    m \in {n \in DOMAIN D.mats :
                             /\ EndsWithORG(D.mats[n].name)
                             /\ MatExists(D.mats, SimplifiedName(D.mats[n].name))}}
    IN  [D EXCEPT
           !.mats = [m \in DOMAIN D.mats |->
                       IF m \in sibs /\ HasBakeNodes(D, m)
                       THEN [D.mats[m] EXCEPT
                               !.img = [t \in BakeTypeSet |->
                                           ImgGet(D.images, D.mats[m].name, t)]]
                       ELSE D.mats[m]],
           !.raised = \E m \in sibs : ~HasBakeNodes(D, m)]

\* lines 368-371: one pass over armatures, objects, meshes, materials, images,
\* node groups, in this order, removing the blocks without users. A block
\* that loses its last user in a later pass stays: an armature whose object
\* goes in the objects pass, an image whose node group goes in the last pass.
Sweep(D) ==
    LET C == D.coll
        armatures == {d \in C.data : d[1] = "ARMATURE" => DataUsed(C, d)}
        objects == Restrict(C.dup, {x \in DOMAIN C.dup : C.dup[x].linked})
        meshes == {d \in armatures :
                      d[1] = "MESH" => DataUsed([C EXCEPT !.dup = objects], d)}
        materials == {m \in DOMAIN D.mats : MatUsed(D.mats, D.slots, objects, m)}
    IN  [D EXCEPT
           !.mats = Restrict(D.mats, materials),
           !.images = Restrict(D.images,
                               {i \in DOMAIN D.images : ImgUsed(D.mats, i)}),
           !.coll = [C EXCEPT
                       !.dup = objects,
                       !.data = meshes,
                       !.aimages = {a \in C.aimages : ImgUsed(D.mats, a)},
                       !.emission = Restrict(C.emission, DOMAIN C.emission \cap materials),
                       !.atlasmats = C.atlasmats \cap materials]]

\* lines 358-371
remove_orphan_data(D) ==
    LET R == RevertImages(D)
    IN  IF R.raised THEN R ELSE Sweep(R)

\* lines 373-382: an older copy of the collection is deleted with its child
\* collections, and the blocks without users are removed
del_collection(D) ==
    IF "atlas" \in D.coll.colls
    THEN remove_orphan_data(
            [D EXCEPT
               !.coll.colls = {},
               !.coll.exporters = 0,
               !.coll.dup = [x \in DOMAIN D.coll.dup |->
                               [D.coll.dup[x] EXCEPT !.linked = FALSE]],
               !.coll.purged = TRUE])
    ELSE [D EXCEPT !.coll.purged = FALSE]

\* o.copy(), dupe.data.copy(): the first free name
FreshCopy(dup, o) ==
    LET k == CHOOSE n \in 1..(Cardinality(DOMAIN dup) + 1) :
                 /\ <<o, n>> \notin DOMAIN dup
                 /\ \A j \in 1..(n - 1) : <<o, j>> \in DOMAIN dup
    IN  <<o, k>>

FreshData(data, d) ==
    LET k == CHOOSE n \in 1..(Cardinality(data) + 1) :
                 /\ <<d[1], d[2], n>> \notin data
                 /\ \A j \in 1..(n - 1) : <<d[1], d[2], j>> \in data
    IN  <<d[1], d[2], k>>

\* lines 408-411: the copy of an object gets the copy of its parent as parent
\* if the parent was copied, and keeps the parent it was copied with if not
ParentOfCopy(dupe_lut, parent) ==
    IF parent[1] \in DOMAIN dupe_lut /\ parent[2] = 0
    THEN dupe_lut[parent[1]]
    ELSE parent

\* lines 391-418: every object of the collection is copied with its data
copy(D) ==
    LET C == D.coll
        dupe_lut == [o \in SrcObjects |-> FreshCopy(C.dup, o)]
        new == [x \in {dupe_lut[o] : o \in SrcObjects} |->
                  LET o == x[1]
                  IN  [src |-> o,
                       type |-> C.src[o].type,
                       parent |-> ParentOfCopy(dupe_lut, C.src[o].parent),
                       mods |-> C.src[o].mods,
                       slots |-> IF o \in Objects THEN D.slots[o] ELSE << >>,
                       data |-> FreshData(C.data, C.src[o].data),
                       linked |-> TRUE]]
    IN  [D EXCEPT
           !.coll.dup = new @@ C.dup,
           !.coll.data = C.data \cup {new[x].data : x \in DOMAIN new},
           !.coll.colls = AtlasCollections]

\* nodes.new(...) with name 'Emission': the first free numeric suffix
AddEmission(emission, m) ==
    LET have == IF m \in DOMAIN emission THEN emission[m] ELSE {}
        k == CHOOSE n \in 0..Cardinality(have) :
                 n \notin have /\ \A j \in 0..(n - 1) : j \in have
    IN  (m :> (have \cup {k})) @@ emission

RECURSIVE WireFrom(_, _)
WireFrom(emission, list) ==
    IF list = << >> THEN emission
    ELSE WireFrom(AddEmission(emission, Head(list)), Tail(list))

\* the simplified materials of the slots of the meshes of the copy, mesh by mesh
RECURSIVE SimpleSlotsFrom(_, _)
SimpleSlotsFrom(D, i) ==
    IF i > Len(MeshOrder) THEN << >>
    ELSE SimpleSlots(D, DupIn(D.coll, MeshOrder[i])) \o SimpleSlotsFrom(D, i + 1)

\* lines 421-432: an emission node and an image node for every slot of the
\* copy that holds a simplified material. The slots are taken to be in use by
\* a face, so that removing the unused slots removes none.
setup_materials(D) ==
    [D EXCEPT !.coll.emission = WireFrom(D.coll.emission, SimpleSlotsFrom(D, 1))]

\* line 435, the packing routine: for every mesh of the copy that has a
\* simplified material and every enabled bake type, the file
\* '<index>_<type>.png' and the image loaded from it
combiner(D) ==
    LET packed == {<<IndexName(i - 1), t>> :
                      i \in {j \in 1..Len(MeshOrder) :
                               SimpleSlots(D, DupIn(D.coll, MeshOrder[j])) # << >>},
                      t \in D.cfg.passes}
    IN  [D EXCEPT
           !.coll.afiles = D.coll.afiles \cup packed,
           !.coll.aimages = D.coll.aimages \cup
                               {AtlasImage(D.coll.aimages, f[1], f[2]) : f \in packed}]

\* lines 447-460: the modifiers of a mesh of the copy
FixModifier(mod, copied_armature) ==
    IF mod.type = "ARMATURE" THEN [mod EXCEPT !.object = copied_armature]
    ELSE IF mod.type = "SOLIDIFY" THEN [mod EXCEPT !.show = FALSE]
    ELSE IF mod.type = "UV_WARP"
         THEN [mod EXCEPT !.object = copied_armature, !.object_to = copied_armature]
    ELSE mod

\* the meshes whose modifiers are fixed: all of the copy (the test for
\* simplified materials of line 463 comes after)
MeshesWithSimpleOnly(D) ==
    {x \in DOMAIN D.coll.dup : D.coll.dup[x].linked /\ SimpleSlots(D, x) # << >>}

MeshesToFix(D) ==
    {x \in DOMAIN D.coll.dup : D.coll.dup[x].linked /\ D.coll.dup[x].type = "MESH"}

FixModifiers(D, x) ==
    LET armatures == SelectSeq(ObjectOrder,
                               LAMBDA o : \E y \in DOMAIN D.coll.dup :
                                             /\ D.coll.dup[y].linked
                                             /\ D.coll.dup[y].src = o
                                             /\ D.coll.dup[y].type = "ARMATURE")
        mods == D.coll.dup[x].mods
    IN  IF x \notin MeshesToFix(D) THEN D
        ELSE IF /\ armatures = << >>
                /\ \E j \in DOMAIN mods : mods[j].type \in {"ARMATURE", "UV_WARP"}
        THEN [D EXCEPT !.raised = TRUE]
        ELSE IF armatures = << >> THEN D
        ELSE [D EXCEPT
                !.coll.dup[x].mods =
                    [j \in DOMAIN mods |->
                        FixModifier(mods[j], DupIn(D.coll, armatures[1]))]]

\* lines 484-512: the simplified materials of the mesh get their atlas
\* material, made at the first bake type they have an image of
RECURSIVE BindMaterials(_, _, _, _)
BindMaterials(D, list, bake_type, atlas_image) ==
    IF list = << >> THEN D
    ELSE
      LET material == Head(list)
          name == AtlasName(D.mats[material].name)
          emission == D.coll.emission
          stripped == IF material \in DOMAIN emission /\ 0 \in emission[material]
                      THEN [emission EXCEPT ![material] = @ \ {0}]
                      ELSE emission
          atlas_material == FreshId(D.mats)
          made == [D EXCEPT
                     !.mats = (atlas_material :>
                                 [D.mats[material] EXCEPT
                                    !.name = name,
                                    !.simple = FALSE,
                                    !.use_fake_user = FALSE,
                                    !.img = BindNew(D.mats[material].img,
                                                    bake_type, atlas_image)])
                              @@ D.mats,
                     !.coll.emission =
                         IF material \in DOMAIN stripped
                         THEN (atlas_material :> stripped[material]) @@ stripped
                         ELSE stripped,
                     !.coll.atlasmats = D.coll.atlasmats \cup {atlas_material}]
          found == MatByName(D.mats, name)
          bound == [D EXCEPT
                      !.mats[found].img =
                          BindNew(D.mats[found].img, bake_type, atlas_image)]
      IN  IF D.mats[material].img[bake_type] = NoImg
          THEN BindMaterials(D, Tail(list), bake_type, atlas_image)
          ELSE IF ~MatExists(D.mats, name)
          THEN BindMaterials(made, Tail(list), bake_type, atlas_image)
          ELSE BindMaterials(bound, Tail(list), bake_type, atlas_image)

\* line 469-470: the stale image of the name is removed before the load
RemoveStaleImage(D, stale) ==
    IF stale \in D.coll.aimages
    THEN [D EXCEPT !.mats = RemoveImage(D.mats, stale),
                   !.coll.aimages = D.coll.aimages \ {stale}]
    ELSE D

\* lines 466-512: one bake type for the mesh x at position index
BindType(D, x, index, bake_type) ==
    LET key == ObjectKey(x)
        S == RemoveStaleImage(D, <<"atlas", key, bake_type, 0>>)
        original == <<IndexName(index), bake_type>>
        afiles == IF original \in S.coll.afiles
                  THEN (S.coll.afiles \ {original}) \cup {<<key, bake_type>>}
                  ELSE S.coll.afiles
        atlas_image == AtlasImage(S.coll.aimages, key, bake_type)
        index_image == <<"atlas", IndexName(index), bake_type, 0>>
        loaded == [S EXCEPT
                     !.coll.afiles = afiles,
                     !.coll.aimages = (S.coll.aimages \cup {atlas_image}) \ {index_image},
                     !.mats = RemoveImage(S.mats, index_image)]
    IN  IF <<key, bake_type>> \notin afiles
        THEN [S EXCEPT !.coll.afiles = afiles, !.raised = TRUE]
        ELSE IF index_image \notin S.coll.aimages
        THEN [S EXCEPT !.coll.afiles = afiles,
                       !.coll.aimages = S.coll.aimages \cup {atlas_image},
                       !.raised = TRUE]
        ELSE BindMaterials(loaded, SimpleSlots(loaded, x), bake_type, atlas_image)

RECURSIVE BindTypes(_, _, _, _)
BindTypes(D, x, index, types) ==
    IF D.raised \/ types = << >> THEN D
    ELSE BindTypes(BindType(D, x, index, Head(types)), x, index, Tail(types))

\* lines 514-518: the slots that hold a simplified material get its atlas
\* material, or None if it has none
SwapToAtlas(D, x) ==
    [D EXCEPT
       !.coll.dup[x].slots =
           [i \in DOMAIN D.coll.dup[x].slots |->
               LET m == D.coll.dup[x].slots[i]
               IN  IF m # NoMaterial /\ D.mats[m].simple
                   THEN IF MatExists(D.mats, AtlasName(D.mats[m].name))
                        THEN MatByName(D.mats, AtlasName(D.mats[m].name))
                        ELSE NoMaterial
                   ELSE m]]

\* lines 445-518: one mesh of the copy
BindMesh(D, x, index) ==
    LET F == FixModifiers(D, x)
        B == BindTypes(F, x, index, EnabledTypes(F.cfg))
    IN  IF F.raised \/ SimpleSlots(F, x) = << >> THEN F
        ELSE IF B.raised THEN B
        ELSE SwapToAtlas(B, x)

RECURSIVE BindMeshes(_, _)
BindMeshes(D, i) ==
    IF D.raised \/ i > Len(MeshOrder) THEN D
    ELSE BindMeshes(BindMesh(D, DupIn(D.coll, MeshOrder[i]), i - 1), i + 1)

\* lines 438-518
replace_with_atlas(D) == BindMeshes(D, 1)

\* lines 520-545: with host version 4 and later the exporter is added and
\* line 533 reads ue_fix_axis, a local of execute that is no name of this
\* function or of the module: NameError. Otherwise the copy is hidden and the
\* blocks without users are removed.
setup_exporter(D) ==
    IF D.cfg.version > 3
    THEN [D EXCEPT !.coll.exporters = D.coll.exporters + 1, !.raised = TRUE]
    ELSE remove_orphan_data(D)

\* lines 345-545, for the call of line 621
AtlasSteps == <<"purge", "copy", "wire", "combine", "bind", "finish">>

AtlasStep(D, step) ==
    IF step = "purge" THEN del_collection(D)
    ELSE IF step = "copy" THEN copy(D)
    ELSE IF step = "wire" THEN setup_materials(D)
    ELSE IF step = "combine" THEN combiner(D)
    ELSE IF step = "bind" THEN replace_with_atlas(D)
    ELSE setup_exporter(D)

RECURSIVE AtlasFrom(_, _)
AtlasFrom(D, k) ==
    IF D.raised \/ k > Len(AtlasSteps) THEN D
    ELSE AtlasFrom(AtlasStep(D, AtlasSteps[k]), k + 1)

create_material_atlas(D) == AtlasFrom(D, 1)

NoView == << >>

\* the name of the image an image node holds
ImageName(im, image) ==
    IF image = NoImg THEN NoImg
    ELSE IF image[1] = "atlas" THEN image
    ELSE <<"baked", im[image].stem, im[image].type, im[image].suffix>>

\* what a call of create_material_atlas finds: the slots and the objects of
\* the character collection, the node pairs of the materials and the names of
\* the images of the simplified materials
BeforeAtlas ==
    [slots |-> slots, src |-> coll.src, emission |-> coll.emission,
     img |-> [m \in {n \in DOMAIN mats : mats[n].simple} |->
                [t \in BakeTypeSet |-> ImageName(images, mats[m].img[t])]]]

\* the copy as a caller sees it: the materials of the slots of its meshes, by
\* name, with the names of their images
AtlasView(ms, im, C) ==
    [o \in Objects |->
        LET sl == C.dup[DupIn(C, o)].slots
        IN  [i \in DOMAIN sl |->
                IF sl[i] = NoMaterial THEN <<"None">>
                ELSE <<"material", ms[sl[i]].name,
                       [t \in BakeTypeSet |-> ImageName(im, ms[sl[i]].img[t])]>>]]

\* one step of create_material_atlas; the last one returns or raises
Atlas(step, from, to) ==
    /\ pc = from
    /\ \E D \in {AtlasStep(AtlasScene(mats, slots, images, coll, cfg), step)} :
          /\ mats' = D.mats
          /\ images' = D.images
          /\ coll' = IF step = "purge"
                     THEN [D.coll EXCEPT !.calls = coll.calls + 1]
                     ELSE D.coll
          /\ pc' = IF D.raised THEN "raised" ELSE to
          /\ hist' = [hist EXCEPT
                        !.op = "atlas",
                        !.outcome = IF D.raised THEN "raised"
                                    ELSE IF to = "idle" THEN "returned"
                                    ELSE "running",
                        !.pre = IF D.raised \/ to = "idle" THEN NoView
                                ELSE IF step = "purge" THEN BeforeAtlas
                                ELSE hist.pre,
                        !.previous =
                            IF D.raised \/ to = "idle" THEN NoView
                            ELSE IF step = "purge"
                            THEN IF /\ hist.op = "atlas"
                                    /\ hist.outcome = "returned"
                                    /\ "atlas" \in coll.colls
                                 THEN AtlasView(mats, images, coll)
                                 ELSE NoView
                            ELSE hist.previous]
    /\ UNCHANGED <<slots, files, cfg, rs, combine, rig, bp>>

AtlasPurge ==
    pc = "idle" /\ coll.calls < MaxCalls /\ Atlas("purge", "idle", "at_copy")
AtlasCopy == pc = "at_copy" /\ Atlas("copy", "at_copy", "at_wire")
AtlasWire == pc = "at_wire" /\ Atlas("wire", "at_wire", "at_combine")
AtlasCombine == pc = "at_combine" /\ Atlas("combine", "at_combine", "at_bind")
AtlasBind == pc = "at_bind" /\ Atlas("bind", "at_bind", "at_finish")
AtlasFinish == pc = "at_finish" /\ Atlas("finish", "at_finish", "idle")

\* lines 658-663: the exception is caught by execute, which returns CANCELLED
AtlasAbort ==
    /\ pc = "raised"
    /\ pc' = "idle"
    /\ UNCHANGED <<mats, slots, images, files, cfg, rs, combine, rig, bp, hist, coll>>

\* lines 613-614: replace_all_baked_materials for every bakeable object, up to
\* the first call that raises
RECURSIVE RebindObjects(_, _, _)
RebindObjects(D, fs, k) ==
    IF D.raised \/ k > Len(MeshOrder) THEN D
    ELSE LET R == replace_all_baked_materials(D.mats, D.slots, D.images, fs,
                                              D.cfg, MeshOrder[k])
         IN  RebindObjects([R EXCEPT !.created = D.created \cup R.created], fs, k + 1)

RebindAll ==
    /\ pc = "idle"
    /\ \E D \in {RebindObjects([mats |-> mats, slots |-> slots, images |-> images,
                                 cfg |-> cfg, raised |-> FALSE, created |-> {}],
                                files, 1)} :
           /\ mats' = D.mats
           /\ slots' = D.slots
           /\ images' = D.images
           /\ hist' = [hist EXCEPT
                         !.op = "rebind",
                         !.outcome = IF D.raised THEN "raised" ELSE "returned",
                         !.created = D.created]
    /\ UNCHANGED <<files, cfg, rs, combine, rig, pc, bp, coll>>

\* the slots of the objects at the call
AtlasSlotChoices == {<<1>>, <<1, 1>>, <<1, 3>>}

AtlasPassChoices == {{"light"}, {"light", "dark"}}

\* the parents of the armature and of the hair
ParentChoices == {<<NoObject, <<Armature, 0>>>>, <<Outside, <<"body", 0>>>>}

AtlasFileChoices == {{"light"}, {"light", "dark"}}

InitAtlas ==
    /\ mats = [i \in 0..4 |->
                 IF i = Placeholder THEN PlaceholderMaterial
                 ELSE Material(MatNames[i], KindOf(i, 0))]
    /\ \E s \in AtlasSlotChoices, h \in HairChoices :
         slots = [o \in Objects |-> IF o = "body" THEN s ELSE h]
    /\ images = << >>
    /\ \E p \in AtlasFileChoices :
         files = {<<BakeStem(MatNames[i]), t>> : i \in 1..4, t \in p}
    /\ \E p \in AtlasPassChoices, version \in {3, 4} :
         cfg = [passes |-> p, bake_mult |-> 1, shader |-> "A", version |-> version]
    /\ bp = [obj |-> "body", todo |-> << >>,
             done |-> << >>, bake_type |-> "light", index |-> 1,
             original_material_order |-> << >>, original_normal_state |-> 0,
             before |-> << >>]
    /\ rs = [resolution_x |-> 1, resolution_y |-> 1, filepath |-> << >>,
             filler |-> Placeholder]
    /\ combine = [linked |-> TRUE, value |-> 0]
    /\ rig = RigClean
    /\ pc = "idle"
    /\ hist = [pre |-> NoView, previous |-> NoView] @@ HistInit
    /\ \E parents \in ParentChoices : coll = Collections(parents[1], parents[2])

NextAtlas ==
    \/ RebindAll
    \/ \E obj \in Objects, i \in 1..(MaxSlots + 1) : UserRevert(obj, i)
    \/ AtlasPurge
    \/ AtlasCopy
    \/ AtlasWire
    \/ AtlasCombine
    \/ AtlasBind
    \/ AtlasFinish
    \/ AtlasAbort

SpecAtlas == InitAtlas /\ [][NextAtlas]_vars

-----------------------------------------------------------------------------
(* bake_pass on one material, over the names a material can have *)

MaxLen == 2

\* characters of a material name: a letter and three of the characters that
\* sanitizeMaterialName removes
NameAlphabet == {"A", ".", "*", "doublequote"}

NameHeads == UNION {[1..n -> NameAlphabet] : n \in 0..MaxLen}

\* how the name ends: with '-ORG' or not, with a removed character after or
\* inside the '-ORG', with '-ORG' twice
NameTails ==
    {<< >>, ORG, ORG \o <<".">>, <<"-", "O", ".", "R", "G">>, ORG \o ORG}

InitNames ==
    /\ \E head \in NameHeads, tail \in NameTails, k \in {1, 3, 4} :
         mats = [i \in 0..1 |->
                   IF i = Placeholder THEN PlaceholderMaterial
                   ELSE Material(head \o tail, MatKinds[k])]
    /\ slots = [o \in Objects |-> IF o = "body" THEN <<1>> ELSE << >>]
    /\ images = << >>
    /\ files = {}
    /\ \E p \in {{"light"}, {"dark", "normal"}} :
         /\ cfg = [passes |-> p, bake_mult |-> 1, shader |-> "A", version |-> 4]
         /\ bp = [obj |-> "body", todo |-> EnabledTypes([passes |-> p]),
                  done |-> << >>, bake_type |-> "light", index |-> 1,
                  original_material_order |-> << >>, original_normal_state |-> 0,
                  before |-> << >>]
    /\ rs = [resolution_x |-> 1, resolution_y |-> 1, filepath |-> << >>,
             filler |-> Placeholder]
    /\ combine = [linked |-> TRUE, value |-> 0]
    /\ rig = RigReady
    /\ pc = "idle"
    /\ hist = HistInit
    /\ coll = CollInit

SpecNames == InitNames /\ [][NextBake]_vars

-----------------------------------------------------------------------------
(* bake_materials.execute *)

MaxRuns == 2

\* c.get_all_bakeable_objects(): the body first
BakeableObjects == <<"body", "hair">>

\* line 573: the slots of the object that hold a bake-tagged material
WorthBaking(ms, sl, obj) == {i \in DOMAIN sl[obj] : HasBakeTag(ms[sl[obj][i]])}

\* lines 657 and 663: what execute returns
Finished == "FINISHED"
CancelledAsFinished == "FINISHED"
Cancelled == "CANCELLED"

\* a step of the run: the function called, the object it is called for and,
\* for bake_pass, the bake type
Step(name, obj, bake_type) == <<name, obj, bake_type>>

Running(ex) == pc = "idle" /\ bp.ex = ex

\* lines 555-569: the run starts; the viewport is set to SOLID and the film
\* is made transparent
ExecBegin ==
    /\ Running("done")
    /\ hist.executions < MaxRuns
    /\ bp' = [bp EXCEPT !.ex = "loop", !.queue = BakeableObjects,
                        !.result = "none", !.todo = << >>, !.done = << >>]
    /\ rs' = [rs EXCEPT !.shading = "SOLID", !.film_transparent = TRUE]
    /\ hist' = [hist EXCEPT
                  !.executions = hist.executions + 1,
                  !.steps = << >>,
                  !.logged = FALSE,
                  !.reported = FALSE,
                  !.worth = {o \in Objects : WorthBaking(mats, slots, o) # {}},
                  !.hidden_before = rs.hidden]
    /\ UNCHANGED <<mats, slots, images, files, cfg, combine, rig, pc, coll>>

\* lines 573-576: an object without bake-tagged material is passed over
ExecSkipObject ==
    /\ Running("loop")
    /\ bp.queue # << >>
    /\ WorthBaking(mats, slots, Head(bp.queue)) = {}
    /\ bp' = [bp EXCEPT !.queue = Tail(bp.queue)]
    /\ UNCHANGED <<mats, slots, images, files, cfg, rs, combine, rig, pc, hist, coll>>

\* lines 578-588: every object is hidden from the render but the object to bake
ExecHide ==
    /\ Running("loop")
    /\ bp.queue # << >>
    /\ WorthBaking(mats, slots, Head(bp.queue)) # {}
    /\ bp' = [bp EXCEPT !.ex = "camera", !.obj = Head(bp.queue)]
    /\ rs' = [rs EXCEPT !.hidden = Objects \ {Head(bp.queue)}]
    /\ hist' = [hist EXCEPT !.steps = Append(@, Step("hide", Head(bp.queue), "-"))]
    /\ UNCHANGED <<mats, slots, images, files, cfg, combine, rig, pc, coll>>

\* line 589
ExecSetupCamera ==
    /\ Running("camera")
    /\ rig' = setup_camera(rig)
    /\ bp' = [bp EXCEPT !.ex = "geometry"]
    /\ hist' = [hist EXCEPT !.steps = Append(@, Step("setup_camera", Obj, "-"))]
    /\ UNCHANGED <<mats, slots, images, files, cfg, rs, combine, pc, coll>>

\* lines 590-601: the rig of the object to bake, and the bake types to run
ExecSetupGeometryNodes ==
    /\ Running("geometry")
    /\ rig' = setup_geometry_nodes_and_fillerplane(rig, Obj)
    /\ bp' = [bp EXCEPT !.ex = "passes", !.todo = EnabledTypes(cfg), !.done = << >>]
    /\ hist' = [hist EXCEPT
                  !.steps = Append(@, Step("setup_geometry_nodes", Obj, "-"))]
    /\ UNCHANGED <<mats, slots, images, files, cfg, rs, combine, pc, coll>>

\* line 148: the color output group has no link into input 0 of 'mix', and
\* links[0] raises IndexError
BakePassBeginFails ==
    /\ Running("passes")
    /\ bp.todo # << >>
    /\ ~combine.linked
    /\ pc' = "raised"
    /\ hist' = [hist EXCEPT
                  !.steps = Append(@, Step("bake_pass", Obj, Head(bp.todo)))]
    /\ UNCHANGED <<mats, slots, images, files, cfg, rs, combine, rig, bp, coll>>

\* lines 604-608: the rig is taken down once every bake type is done
ExecCleanup ==
    /\ Running("passes")
    /\ bp.todo = << >>
    /\ \E R \in {cleanup(rig)} :
          /\ rig' = R.rig
          /\ pc' = IF R.raised THEN "raised" ELSE "idle"
          /\ bp' = IF R.raised THEN bp
                   ELSE [bp EXCEPT !.ex = "loop", !.queue = Tail(bp.queue)]
    /\ hist' = [hist EXCEPT !.steps = Append(@, Step("cleanup", Obj, "-"))]
    /\ UNCHANGED <<mats, slots, images, files, cfg, rs, combine, coll>>

\* lines 610-613: every object has been baked; the film is made opaque
ExecLoopEnd ==
    /\ Running("loop")
    /\ bp.queue = << >>
    /\ bp' = [bp EXCEPT !.ex = "rebind", !.queue = BakeableObjects]
    /\ rs' = [rs EXCEPT !.film_transparent = FALSE]
    /\ UNCHANGED <<mats, slots, images, files, cfg, combine, rig, pc, hist, coll>>

\* lines 613-614: one call of replace_all_baked_materials
ExecRebind ==
    /\ Running("rebind")
    /\ bp.queue # << >>
    /\ \E D \in {replace_all_baked_materials(mats, slots, images, files, cfg,
                                             Head(bp.queue))} :
          /\ mats' = D.mats
          /\ slots' = D.slots
          /\ images' = D.images
          /\ pc' = IF D.raised THEN "raised" ELSE "idle"
          /\ bp' = IF D.raised THEN bp ELSE [bp EXCEPT !.queue = Tail(bp.queue)]
    /\ hist' = [hist EXCEPT !.steps = Append(@, Step("rebind", Head(bp.queue), "-"))]
    /\ UNCHANGED <<files, cfg, rs, combine, rig, coll>>

\* lines 616-618: every object is shown to the render again
ExecShowAll ==
    /\ Running("rebind")
    /\ bp.queue = << >>
    /\ bp' = [bp EXCEPT !.ex = "atlas"]
    /\ rs' = [rs EXCEPT !.hidden = {}]
    /\ UNCHANGED <<mats, slots, images, files, cfg, combine, rig, pc, hist, coll>>

\* lines 620-621
ExecAtlas ==
    /\ Running("atlas")
    /\ cfg.use_atlas
    /\ \E D \in {create_material_atlas(AtlasScene(mats, slots, images, coll, cfg))} :
          /\ mats' = D.mats
          /\ images' = D.images
          /\ coll' = D.coll
          /\ pc' = IF D.raised THEN "raised" ELSE "idle"
          /\ bp' = IF D.raised THEN bp ELSE [bp EXCEPT !.ex = "finish"]
    /\ hist' = [hist EXCEPT !.steps = Append(@, Step("atlas", "-", "-"))]
    /\ UNCHANGED <<slots, files, cfg, rs, combine, rig>>

ExecNoAtlas ==
    /\ Running("atlas")
    /\ ~cfg.use_atlas
    /\ bp' = [bp EXCEPT !.ex = "finish"]
    /\ UNCHANGED <<mats, slots, images, files, cfg, rs, combine, rig, pc, hist, coll>>

\* lines 623-657: the character collection gets its exporter on a host other
\* than version 3, the viewport is set to SOLID, execute returns FINISHED
ExecFinish ==
    /\ Running("finish")
    /\ rs' = [rs EXCEPT !.shading = "SOLID",
                        !.exporter = rs.exporter \/ cfg.version # 3]
    /\ bp' = [bp EXCEPT !.ex = "done", !.result = Finished]
    /\ UNCHANGED <<mats, slots, images, files, cfg, combine, rig, pc, hist, coll>>

\* lines 658-663: whatever was raised is caught; the traceback is logged and
\* reported, the viewport is set to SOLID, execute returns CANCELLED
ExecExcept ==
    /\ pc = "raised"
    /\ pc' = "idle"
    /\ rs' = [rs EXCEPT !.shading = "SOLID"]
    /\ bp' = [bp EXCEPT !.ex = "done", !.result = Cancelled]
    /\ hist' = [hist EXCEPT !.logged = TRUE, !.reported = TRUE]
    /\ UNCHANGED <<mats, slots, images, files, cfg, combine, rig, coll>>

\* the slots of the body and of the hair when the operator is first run
PipelineBodyChoices == {<<1>>, <<1, 3>>}
PipelineHairChoices == {<< >>, <<4>>}

PipelinePassChoices == {{"light"}, {"light", "dark"}, BakeTypeSet}

ShadingChoices == {"SOLID", "MATERIAL"}

\* the objects the user has hidden from the render (hide_render)
HiddenChoices == {{}, {"hair"}}

InitPipeline ==
    /\ mats = [i \in 0..4 |->
                 IF i = Placeholder THEN PlaceholderMaterial
                 ELSE Material(MatNames[i], KindOf(i, 0))]
    /\ \E s \in PipelineBodyChoices, h \in PipelineHairChoices :
         slots = [o \in Objects |-> IF o = "body" THEN s ELSE h]
    /\ images = << >>
    /\ files = {}
    /\ \E p \in PipelinePassChoices, host \in HostChoices, use_atlas \in BOOLEAN :
         cfg = [passes |-> p, bake_mult |-> 1, shader |-> host[1],
                version |-> host[2], use_atlas |-> use_atlas]
    /\ bp = [obj |-> "body", todo |-> << >>,
             done |-> << >>, bake_type |-> "light", index |-> 1,
             original_material_order |-> << >>, original_normal_state |-> 0,
             before |-> << >>,
             ex |-> "done", queue |-> << >>, result |-> "none"]
    /\ \E shading \in ShadingChoices, hidden \in HiddenChoices :
         rs = [resolution_x |-> 1, resolution_y |-> 1, filepath |-> << >>,
               filler |-> Placeholder,
               shading |-> shading, film_transparent |-> FALSE, hidden |-> hidden,
               exporter |-> FALSE]
    /\ combine = [linked |-> TRUE, value |-> 0]
    /\ rig = RigClean
    /\ pc = "idle"
    /\ hist = [executions |-> 0, logged |-> FALSE, reported |-> FALSE,
               worth |-> {}, hidden_before |-> {}] @@ HistInit
    /\ coll = CollInit

NextPipeline ==
    \/ ExecBegin
    \/ ExecSkipObject
    \/ ExecHide
    \/ ExecSetupCamera
    \/ ExecSetupGeometryNodes
    \/ BakePassBegin
    \/ BakePassBeginFails
    \/ BakeSkip
    \/ BakeUntextured
    \/ BakePrepare
    \/ BakeRender
    \/ BakeRenderFails
    \/ BakeRestore
    \/ BakePassEnd
    \/ ExecCleanup
    \/ ExecLoopEnd
    \/ ExecRebind
    \/ ExecShowAll
    \/ ExecAtlas
    \/ ExecNoAtlas
    \/ ExecFinish
    \/ ExecExcept

SpecPipeline == InitPipeline /\ [][NextPipeline]_vars

-----------------------------------------------------------------------------
(* Claims about bake_pass *)

Range(f) == {f[i] : i \in DOMAIN f}

\* every bake_pass of the run has returned normally
BakeDone == pc = "idle" /\ bp.todo = << >>

\* the material bake_pass is processing, by the slots as they were at the call
BakedNow == bp.before[bp.index]

\* C1: after bake_pass returns normally, and already whenever it turns to the
\* next material of the pass, every slot of the object holds the material it
\* held when bake_pass was called.
C1_SlotOrderRestored ==
    ((pc = "idle" /\ bp.done # << >>) \/ pc = "bp_loop")
        => slots[Obj] = bp.before

\* a pass that rendered has returned on an object with two different materials
C1_Witness ==
    /\ pc = "idle"
    /\ bp.done # << >>
    /\ hist.renders > 0
    /\ Len(slots[Obj]) = MaxSlots
    /\ slots[Obj][1] # slots[Obj][2]
    /\ Placeholder \notin Range(slots[Obj])

\* C2: at every render call each slot of the object holds the material being
\* baked or the transparent placeholder, and the fillerplane's slot holds the
\* material being baked.
C2_OnlyCurrentExposed ==
    pc = "bp_render" =>
        /\ \A i \in DOMAIN slots[Obj] : slots[Obj][i] \in {BakedNow, Placeholder}
        /\ rs.filler = BakedNow

\* a render is due while another slot held a different, non-placeholder material
C2_Witness ==
    /\ pc = "bp_render"
    /\ \E i \in DOMAIN bp.before : bp.before[i] \notin {BakedNow, Placeholder}

\* C3: while a material without the 'bake' tag is processed, nothing is
\* rendered, no file is written and no slot (the fillerplane's included) changes.
C3_IneligibleUntouched ==
    [][(InLoop /\ ~mats[CurrentMaterial].bake) =>
          /\ slots' = slots
          /\ rs' = rs
          /\ files' = files
          /\ mats' = mats
          /\ hist'.renders = hist.renders
          /\ hist'.written = hist.written
          /\ pc' = "bp_loop"]_vars

\* a material without the tag has been skipped on an object with two slots
C3_Witness ==
    /\ hist.skipped # {}
    /\ Len(slots[Obj]) = MaxSlots
    /\ \E i \in DOMAIN slots[Obj] : mats[slots[Obj][i]].bake

\* the image nodes of the textures group that have an image loaded
LoadedImages(m) == {k \in DOMAIN m.nodes : m.nodes[k] # NoImage}

\* C4: a bake-tagged material whose 'textures' group has no image node with an
\* image is rendered at exactly 64 by 64.
C4_Failsafe64 ==
    (pc = "bp_render" /\ LoadedImages(mats[BakedNow]) = {})
        => (rs.resolution_x = FailsafeRes /\ rs.resolution_y = FailsafeRes)

BakeTagged == {m \in Range(slots[Obj]) : mats[m].bake}

\* the sanitized name without one trailing '-ORG', said without the loop of
\* sanitizeMaterialName
StemOf(name) ==
    LET kept == SelectSeq(name, LAMBDA ch : ch \notin Range(SanitizeChars))
    IN  IF EndsWithORG(kept) THEN SubSeq(kept, 1, Len(kept) - Len(ORG)) ELSE kept

\* C6 as stated: k distinct bake-tagged materials and the enabled set P give
\* exactly k * |P| files.
C6_OneFilePerPair ==
    BakeDone => Cardinality(hist.written) = Cardinality(BakeTagged) * Cardinality(cfg.passes)

\* C6 amended: the files written are exactly '<stem> <type>.png' for the stems
\* of the bake-tagged materials that have a 'textures' node and the enabled
\* types; they number k * |P| when all k materials have a 'textures' node and
\* no two of them share a stem, and fewer otherwise.
C6_FilesWritten ==
    BakeDone =>
        LET rendered == {m \in BakeTagged : mats[m].textures}
            distinct == \A m1, m2 \in rendered :
                            StemOf(mats[m1].name) = StemOf(mats[m2].name) => m1 = m2
            all == Cardinality(BakeTagged) * Cardinality(cfg.passes)
        IN  /\ hist.written =
                  {<<StemOf(mats[m].name), t>> : m \in rendered, t \in cfg.passes}
            /\ Cardinality(hist.written) <= all
            /\ (Cardinality(hist.written) = all)
                  <=> (rendered = BakeTagged /\ distinct)

\* two bake-tagged materials with different stems, one of them an '-ORG'
\* original, have been baked in two or more passes
C6_Witness ==
    /\ BakeDone
    /\ Cardinality(BakeTagged) = 2
    /\ Cardinality(cfg.passes) >= 2
    /\ Cardinality(hist.written) = 2 * Cardinality(cfg.passes)
    /\ \E m \in BakeTagged : EndsWithORG(mats[m].name)

-----------------------------------------------------------------------------
(* Claims about replace_all_baked_materials *)

\* the name of the image an image slot holds (datablocks come and go at every
\* load; the name is what stays)
BoundName(im, image) == IF image = NoImg THEN NoImg ELSE im[image]

\* materials with their names, tags and image bindings, the slots by material
\* name, and the names of the images
SceneView(ms, sl, im) ==
    [mats |-> {[name |-> ms[m].name, bake |-> ms[m].bake, simple |-> ms[m].simple,
                use_fake_user |-> ms[m].use_fake_user, blend |-> ms[m].blend,
                img |-> [t \in BakeTypeSet |-> BoundName(im, ms[m].img[t])]]
               : m \in DOMAIN ms},
     slots |-> [o \in Objects |-> [i \in DOMAIN sl[o] |-> ms[sl[o][i]].name]],
     images |-> Range(im)]

\* the step is a call of replace_all_baked_materials
RebindStep == hist'.op = "rebind"

\* a run of replace_all_baked_materials right after a run on the same object
\* leaves materials, names, tags, slots and image bindings as they were
SecondRunChangesNothing ==
    (RebindStep /\ hist.op = "rebind" /\ hist'.obj = hist.obj)
        => SceneView(mats', slots', images') = SceneView(mats, slots, images)

\* C7: a second run of replace_all_baked_materials right after a first, on the
\* same object and folder, leaves materials, names, tags, slots and image
\* bindings as the first run left them.
C7_RebindTwiceAsOnce == [][SecondRunChangesNothing]_vars

\* the same with every shader setting but Eevee Mod, where it holds
C7_OutsideEeveeMod == [][cfg.shader # "C" => SecondRunChangesNothing]_vars

\* the name without its trailing '-ORG'
SiblingName(name) == SubSeq(name, 1, Len(name) - Len(ORG))

\* slot i of obj holds a bake-tagged -ORG original whose simplified sibling
\* exists, and a baked image of it is in the folder
RevertedSlot(obj, i) ==
    LET m == slots[obj][i]
    IN  /\ mats[m].bake
        /\ ~mats[m].simple
        /\ EndsWithORG(mats[m].name)
        /\ MatExists(mats, SiblingName(mats[m].name))
        /\ mats[MatByName(mats, SiblingName(mats[m].name))].simple
        /\ \E t \in BakeTypeSet : <<SiblingName(mats[m].name), t>> \in files

\* slots i < j of obj hold the same bake-tagged material, not simplified yet,
\* and a baked image of it is in the folder
SharedFreshSlots(obj, i, j) ==
    LET m == slots[obj][i]
    IN  /\ i < j
        /\ slots[obj][j] = m
        /\ mats[m].bake
        /\ ~mats[m].simple
        /\ ~ContainsORG(mats[m].name)
        /\ \E t \in BakeTypeSet : <<mats[m].name, t>> \in files

\* what a run does for the slots that hold an -ORG original with a simplified
\* sibling, and for the slots that share one material not simplified yet
SiblingReinstated ==
    RebindStep =>
        LET obj == hist'.obj
        IN  /\ \A i \in DOMAIN slots[obj] :
                  RevertedSlot(obj, i) =>
                      LET m == slots[obj][i]
                          sib == MatByName(mats, SiblingName(mats[m].name))
                      IN  /\ slots'[obj][i] = sib
                          /\ mats'[m].name = mats[m].name
                          /\ mats'[sib].name = mats[sib].name
                          /\ \A t \in BakeTypeSet :
                                <<mats[sib].name, t>> \in files =>
                                    BoundName(images', mats'[sib].img[t])
                                      = [stem |-> mats[sib].name, type |-> t, suffix |-> 0]
            /\ \A i, j \in DOMAIN slots[obj] :
                  SharedFreshSlots(obj, i, j) =>
                      /\ slots'[obj][i] \notin DOMAIN mats
                      /\ mats'[slots'[obj][i]].simple
                      /\ slots'[obj][j] = slots'[obj][i]

\* C8: a slot holding an -ORG original whose simplified sibling exists gets
\* that sibling back, with the baked images bound to it, and nothing is
\* created or renamed for it; of several slots holding one original, the first
\* creates the simplified material and the later ones reuse it.
C8_SiblingReinstated == [][SiblingReinstated]_vars

\* the same with every shader setting but Eevee Mod, where it holds
C8_OutsideEeveeMod == [][cfg.shader # "C" => SiblingReinstated]_vars

\* C9: a simplified material created by a run that returned, with a light image
\* of its name loaded, holds in its dark slot the dark image of its name if
\* there is one and the light image if there is none.
C9_DarkSlotFilled ==
    (hist.op = "rebind" /\ hist.outcome = "returned") =>
        \A simple \in hist.created :
            LET light == ImgGet(images, mats[simple].name, "light")
                dark == ImgGet(images, mats[simple].name, "dark")
            IN  light # NoImg =>
                    mats[simple].img["dark"] = IF dark = NoImg THEN light ELSE dark

\* a run has returned after creating a simplified material that has a light
\* image and no dark image
C9_Witness ==
    /\ hist.op = "rebind"
    /\ hist.outcome = "returned"
    /\ \E simple \in hist.created :
          /\ ImgGet(images, mats[simple].name, "light") # NoImg
          /\ ImgGet(images, mats[simple].name, "dark") = NoImg
          /\ mats[simple].img["light"] # NoImg

\* the same, where the dark image exists
C9_WitnessDark ==
    /\ hist.op = "rebind"
    /\ hist.outcome = "returned"
    /\ \E simple \in hist.created :
          /\ ImgGet(images, mats[simple].name, "light") # NoImg
          /\ ImgGet(images, mats[simple].name, "dark") # NoImg

-----------------------------------------------------------------------------
(* Claims about cleanup *)

\* no camera, no fillerplane, no mesh with a 'Flattener' modifier, no
\* '.Geometry Nodes' node group
CleanScene ==
    /\ rig.cameras = 0
    /\ rig.fillerplanes = 0
    /\ \A o \in Objects : ~rig.flattener[o]
    /\ rig.geonodes = 0

\* C10: cleanup() on a scene that is already clean returns without raising and
\* changes nothing.
C10_CleanupOnCleanScene ==
    [][(hist'.op = "cleanup" /\ CleanScene)
          => (hist'.outcome = "returned" /\ rig' = rig)]_vars

-----------------------------------------------------------------------------
(* Claims about the file names *)

\* the eleven characters, as the claim lists them
ElevenChars ==
    {"backslash", "backtick", "*", "<", ">", ".", ":", "?", "|", "/", "doublequote"}

\* the name with every occurrence of the eleven characters taken out
Kept(name) == SelectSeq(name, LAMBDA ch : ch \notin ElevenChars)

\* a character of the eleven occurs in the name
HasRemovedChar(name) == \E i \in DOMAIN name : name[i] \in ElevenChars

\* C18: sanitizeMaterialName returns its input without the eleven characters,
\* the other characters in their order, so that applying it twice is applying
\* it once; and the path of every render is '<sanitized name> <bake_type>'
\* with one trailing '-ORG' of the sanitized name left out.
C18_SanitizedPath ==
    /\ \A m \in DOMAIN mats :
          /\ sanitizeMaterialName(mats[m].name) = Kept(mats[m].name)
          /\ sanitizeMaterialName(sanitizeMaterialName(mats[m].name))
                = sanitizeMaterialName(mats[m].name)
    /\ pc = "bp_render" =>
          LET kept == Kept(mats[BakedNow].name)
          IN  rs.filepath =
                <<IF EndsWithORG(kept) THEN SubSeq(kept, 1, Len(kept) - Len(ORG))
                  ELSE kept,
                  bp.bake_type>>

\* a render is due for a material whose name has removed characters and ends
\* with '-ORG' only once they are removed
C18_Witness ==
    /\ pc = "bp_render"
    /\ HasRemovedChar(mats[BakedNow].name)
    /\ ~EndsWithORG(mats[BakedNow].name)
    /\ EndsWithORG(Kept(mats[BakedNow].name))
    /\ Len(rs.filepath[1]) > 0

\* C19: a simplified material that replace_all_baked_materials has created
\* has its fake user set, with every shader setting.
C19_NewSimpleKept ==
    hist.op = "rebind" =>
        \A simple \in hist.created : mats[simple].use_fake_user

-----------------------------------------------------------------------------
(* Claims about create_material_atlas *)

\* the step is the last one of a call of create_material_atlas that returns
AtlasReturns == pc = "at_finish" /\ pc' = "idle"

\* the 'Emission'/'Image Texture' node pairs of a material
NodePairs(emission, m) == IF m \in DOMAIN emission THEN emission[m] ELSE {}

\* C11: when create_material_atlas returns, the slots, the modifiers and the
\* parents of the objects of the character collection are as they were at the
\* call, and no material in a slot of these objects has a node more or less.
C11_SourceUntouched ==
    [][AtlasReturns =>
          /\ slots' = hist.pre.slots
          /\ coll'.src = hist.pre.src
          /\ \A o \in Objects : \A i \in DOMAIN slots'[o] :
                NodePairs(coll'.emission, slots'[o][i])
                  = NodePairs(hist.pre.emission, slots'[o][i])]_vars

\* C12: when create_material_atlas returns, every simplified material holds in
\* its light, dark and normal image nodes the images it held at the call.
C12_BakedImagesKept ==
    [][AtlasReturns =>
          \A m \in DOMAIN hist.pre.img :
              (m \in DOMAIN mats' /\ mats'[m].simple) =>
                  \A t \in BakeTypeSet :
                      ImageName(images', mats'[m].img[t]) = hist.pre.img[m][t]]_vars

\* C13: once create_material_atlas has deleted an older copy, and before it
\* builds the new one, no collection of the older copy is left and no
\* armature, object, mesh, material or image is without user; the new copy has
\* as many objects as the character collection.
C13_PriorCopyPurged ==
    /\ (pc = "at_copy" /\ coll.purged) =>
          /\ coll.colls = {}
          /\ \A d \in coll.data : DataUsed(coll, d)
          /\ \A x \in DOMAIN coll.dup : coll.dup[x].linked
          /\ \A m \in DOMAIN mats : MatUsed(mats, slots, coll.dup, m)
          /\ \A i \in DOMAIN images : ImgUsed(mats, i)
          /\ \A a \in coll.aimages : ImgUsed(mats, a)
    /\ (pc = "at_wire" /\ coll.purged) =>
          Cardinality({x \in DOMAIN coll.dup : coll.dup[x].linked})
            = Cardinality(SrcObjects)

\* the meshes of the character collection with a simplified material in a slot
AtlasEligible(ms, sl) ==
    {o \in Objects : \E i \in DOMAIN sl[o] : ms[sl[o][i]].simple}

\* C14: a call of create_material_atlas right after one that returned leaves
\* the slots of the copy with atlas materials of the same names and images,
\* and for every mesh with a simplified material and every enabled bake type
\* exactly one image '<object key>_<type>.png' and no image
\* '<index>_<type>.png'.
C14_RegeneratedAtlasSame ==
    [][(AtlasReturns /\ hist.previous # NoView) =>
          /\ AtlasView(mats', images', coll') = hist.previous
          /\ \A k \in 1..Len(MeshOrder) : \A t \in cfg.passes :
                MeshOrder[k] \in AtlasEligible(mats', slots') =>
                  /\ Cardinality({a \in coll'.aimages :
                                    /\ a[2] = ObjectKey(DupIn(coll', MeshOrder[k]))
                                    /\ a[3] = t}) = 1
                  /\ \A a \in coll'.aimages :
                        ~(a[2] = IndexName(k - 1) /\ a[3] = t)]_vars

\* a reference to an armature of the copy
CopiedArmature(ob) ==
    /\ ob \in DOMAIN coll.dup
    /\ coll.dup[ob].linked
    /\ coll.dup[ob].type = "ARMATURE"

\* the copy is there and create_material_atlas is past its loop over the meshes
AtlasBound == pc \in {"at_finish", "idle", "raised"} /\ "atlas" \in coll.colls

\* C20: once create_material_atlas is past its loop over the meshes, every
\* armature modifier and every UV-warp modifier of a mesh of the copy refers
\* to an armature of the copy, whether the mesh has a simplified material or
\* not, and every object of the copy whose source has its parent in the
\* character collection has the copy of that parent as parent.
C20_CopyRiggedToCopy ==
    AtlasBound =>
        \A x \in DOMAIN coll.dup :
            coll.dup[x].linked =>
                /\ \A j \in DOMAIN coll.dup[x].mods :
                      LET mod == coll.dup[x].mods[j]
                      IN  /\ mod.type = "ARMATURE" => CopiedArmature(mod.object)
                          /\ mod.type = "UV_WARP" =>
                                /\ CopiedArmature(mod.object)
                                /\ CopiedArmature(mod.object_to)
                /\ LET parent == coll.src[coll.dup[x].src].parent
                   IN  parent[1] \in SrcObjects =>
                           coll.dup[x].parent = DupIn(coll, parent[1])

\* the copy is bound; the hair has no material, a UV warp and the body as
\* parent, and the armature has its parent outside the collection
C20_Witness ==
    /\ pc = "at_finish"
    /\ slots["hair"] = << >>
    /\ coll.src["hair"].parent = <<"body", 0>>
    /\ coll.dup[DupIn(coll, "hair")].parent = DupIn(coll, "body")
    /\ coll.dup[DupIn(coll, Armature)].parent = Outside
    /\ \E j \in DOMAIN coll.dup[DupIn(coll, "hair")].mods :
          coll.dup[DupIn(coll, "hair")].mods[j].type = "UV_WARP"
    /\ AtlasEligible(mats, slots) = {"body"}

-----------------------------------------------------------------------------
(* Claims about execute *)

\* the steps of a run that nothing interrupts, for the objects that have a
\* bake-tagged material when the run starts
PassesInOrder(c) == SelectSeq(<<"light", "dark", "normal">>, LAMBDA t : t \in c.passes)

ObjectSteps(o, c) ==
    IF o \in hist.worth
    THEN <<Step("hide", o, "-"), Step("setup_camera", o, "-"),
           Step("setup_geometry_nodes", o, "-")>>
         \o [i \in 1..Len(PassesInOrder(c)) |-> Step("bake_pass", o, PassesInOrder(c)[i])]
         \o <<Step("cleanup", o, "-")>>
    ELSE << >>

ExpectedSteps(c) ==
    ObjectSteps("body", c) \o ObjectSteps("hair", c)
    \o <<Step("rebind", "body", "-"), Step("rebind", "hair", "-")>>
    \o (IF c.use_atlas THEN <<Step("atlas", "-", "-")>> ELSE << >>)

IsPrefix(s, t) == Len(s) <= Len(t) /\ s = SubSeq(t, 1, Len(s))

\* C15: in a run, each object with a bake-tagged slot gets hide, camera and
\* rig setup, bake_pass once per enabled type in the order light, dark,
\* normal, then cleanup, one object after the other; then comes one rebind per
\* bakeable object, then the atlas, once and only if use_atlas is set.  The
\* steps of a run are at any time a prefix of that sequence, and the whole of
\* it when execute returns FINISHED.
C15_StepOrder ==
    /\ IsPrefix(hist.steps, ExpectedSteps(cfg))
    /\ bp.result = "FINISHED" => hist.steps = ExpectedSteps(cfg)

\* C15 witness: a finished run that baked both objects in three bake types
\* and made the atlas
C15_Witness ==
    /\ bp.result = "FINISHED"
    /\ hist.worth = Objects
    /\ cfg.passes = BakeTypeSet
    /\ cfg.use_atlas
    /\ hist.steps[Len(hist.steps)] = Step("atlas", "-", "-")

C16_Outcome ==
    /\ bp.ex = "done" /\ hist.executions > 0 => bp.result \in {"FINISHED", "CANCELLED"}
    /\ bp.ex # "done" => bp.result = "none"
    /\ bp.result = "CANCELLED" =>
          hist.logged /\ hist.reported /\ rs.shading = "SOLID"
    /\ bp.result = "FINISHED" =>
          ~hist.logged /\ ~hist.reported /\ rs.shading = "SOLID"

C16_Handled ==
    /\ pc = "raised" =>
          /\ bp'.result = "CANCELLED"
          /\ bp'.ex = "done"
          /\ hist'.steps = hist.steps
          /\ UNCHANGED <<mats, slots, images, files, rig, coll>>
    /\ bp.result = "CANCELLED" /\ bp'.result = "CANCELLED" => UNCHANGED vars
    /\ bp'.result = "FINISHED" /\ bp.result # "FINISHED" =>
          pc = "idle" /\ pc' = "idle" /\ bp.ex = "finish"

\* C16: when a step raises, the next thing that happens is the handler: the
\* traceback is logged and reported, the viewport is SOLID, execute returns
\* CANCELLED and no further step of the run is taken; FINISHED is returned
\* only by a run in which nothing was raised, and a run that is over has
\* returned one of the two.
C16_RaiseCancels == [](C16_Outcome) /\ [][C16_Handled]_vars

\* C16 witness: a run cancelled in the bake of the body, with the hair still
\* to bake and nothing done for it
C16_Witness ==
    /\ bp.result = "CANCELLED"
    /\ hist.worth = Objects
    /\ hist.steps # << >>
    /\ hist.steps[Len(hist.steps)][1] = "bake_pass"
    /\ \A i \in DOMAIN hist.steps : hist.steps[i][2] = "body"

\* C17: there is never more than one camera and one fillerplane, so the rig
\* of one object is gone before the next is made, in a first run and in a run
\* after an aborted one; at a render there is one of each, and the object
\* being baked has the Flattener modifier.
C17_OneRig ==
    /\ rig.cameras <= 1
    /\ rig.fillerplanes <= 1
    /\ pc = "bp_render" =>
          rig.cameras = 1 /\ rig.fillerplanes = 1 /\ rig.flattener[Obj]

\* C25: with the atlas enabled and every render done, create_material_atlas
\* runs to its end: the call of line 621 does not raise, on a host of version 3
\* and on a host of a later version.
C25_AtlasRunsToItsEnd ==
    [][Running("atlas") /\ cfg.use_atlas => pc' # "raised"]_vars

\* C28: after a run that returns FINISHED the objects hidden from the render
\* are the ones that were hidden before the run; at a render every object but
\* the one being baked is hidden.
C28_VisibilityRestored ==
    /\ bp.result = "FINISHED" => rs.hidden = hist.hidden_before
    /\ pc = "bp_render" => rs.hidden = Objects \ {Obj}

\* C29: whenever bake_pass is called, in a first run or in a run after an
\* aborted one, input 0 of 'mix' in '.Combine colors' has its link.
C29_CombineLinkedAtCall ==
    Running("passes") /\ bp.todo # << >> => combine.linked

-----------------------------------------------------------------------------
(* Claims about what bake_pass and cleanup put back *)

\* C23: when bake_pass has returned, every material of the object has the
\* value of the shade input and the feed of the 'out' node it had at the call,
\* and input 0 of 'mix' in '.Combine colors' is linked again.
C23_GraphRestored ==
    pc = "idle" /\ bp.done # << >> =>
        /\ combine.linked
        /\ \A i \in DOMAIN slots[Obj] :
              LET m == slots[Obj][i]
              IN  <<mats[m].shade, mats[m].outsrc>> = hist.graph[m]

\* C24: after setup_geometry_nodes_and_fillerplane and a cleanup that returns,
\* the mesh has the modifiers, the drivers and the scale it had before setup.
C24_MeshAsBeforeSetup ==
    hist.op = "cleanup" /\ hist.outcome = "returned" /\ hist.mesh # << >> =>
        <<rig.flattener[hist.obj], rig.drivers[hist.obj], rig.scale[hist.obj]>>
            = hist.mesh

-----------------------------------------------------------------------------
(* Claims about the nodes create_material_atlas adds *)

\* C26: when create_material_atlas returns, no simplified material and no
\* atlas material has an 'Emission'/'Image Texture' node pair.
C26_NoEmissionLeft ==
    [][AtlasReturns =>
          \A m \in DOMAIN mats' :
              (mats'[m].simple \/ m \in coll'.atlasmats) =>
                  NodePairs(coll'.emission, m) = {}]_vars

-----------------------------------------------------------------------------
(* Claims about the names bake_pass writes and the rebind looks up *)

\* C27: the file a material is rendered to in a bake type has the name that
\* replace_all_baked_materials looks up for the material and the type (line
\* 282: the material name without '-ORG', then the type), whatever the name.
C27_WrittenNameIsLookedUp ==
    pc = "bp_render" =>
        rs.filepath = <<ReplaceORG(mats[BakedNow].name), bp.bake_type>>

-----------------------------------------------------------------------------
(* Claims about a load that fails *)

\* what a call of replace_all_baked_materials does when the load of one file
\* raises: it returns; every other file of the folder is loaded; every slot of
\* the object whose material is bake-tagged or simplified and has a loaded
\* image of its name holds a simplified material bound to the loaded images of
\* its name; a simplified material of the name of the file keeps, in the bake
\* type of the file, the image it had
LoadFailureSkipped ==
    (hist'.op = "rebind" /\ hist'.failed # {}) =>
        LET obj == hist'.obj
            file == CHOOSE f \in hist'.failed : TRUE
            Found(name, t) == ImgGet(images', ReplaceORG(name), t)
        IN  /\ hist'.outcome = "returned"
            /\ \A f \in files \ hist'.failed : ImgGet(images', f[1], f[2]) # NoImg
            /\ \A i \in DOMAIN slots[obj] :
                  LET before == mats[slots[obj][i]]
                      m == slots'[obj][i]
                  IN  /\ ( /\ before.bake \/ before.simple
                           /\ \E t \in BakeTypeSet : Found(before.name, t) # NoImg )
                         => /\ mats'[m].simple
                            /\ \A t \in BakeTypeSet :
                                  Found(mats'[m].name, t) # NoImg =>
                                      mats'[m].img[t] = Found(mats'[m].name, t)
                      /\ (before.simple /\ before.name = file[1]) =>
                            ImageName(images', mats'[slots[obj][i]].img[file[2]])
                              = ImageName(images, before.img[file[2]])

\* C21: a file that fails to load is passed over; the other files are loaded,
\* the materials whose images loaded are rebound, the material of the failed
\* file keeps what it had in that bake type, and the function does not raise.
C21_LoadFailureSkipped == [][LoadFailureSkipped]_vars

\* the same with every shader setting but Eevee Mod
C21_OutsideEeveeMod == [][cfg.shader # "C" => LoadFailureSkipped]_vars

-----------------------------------------------------------------------------
(* Claims about the names of the materials *)

\* the places of a name where '-ORG' starts
ORGPlaces(text) ==
    {i \in 1..Len(text) :
        i + Len(ORG) - 1 <= Len(text) /\ SubSeq(text, i, i + Len(ORG) - 1) = ORG}

\* the simplified materials made for the original of the name: the one named
\* like the original without '-ORG', and the ones the host has given a suffix
SimplifiedOf(ms, name) ==
    {m \in DOMAIN ms :
        /\ ms[m].simple
        /\ ms[m].name \in {ReplaceORG(name), ReplaceORG(name) \o <<".", "0", "0", "1">>}}

\* C22: whatever runs of replace_all_baked_materials, slots put back to the
\* -ORG original and removals of materials without user have happened, no
\* material name has '-ORG' in it twice and no original has two simplified
\* materials.
C22_OneORGOneSimplified ==
    \A m \in DOMAIN mats :
        /\ Cardinality(ORGPlaces(mats[m].name)) <= 1
        /\ ContainsORG(mats[m].name) =>
              Cardinality(SimplifiedOf(mats, mats[m].name)) <= 1

====
